---- MODULE Spec2Model ----
(***************************************************************************)
(* Completion resolution pipeline of zsh-llm-cli-autocomplete-tool:        *)
(* ModelCompleter.get_completion (completer.py), the effective             *)
(* EnhancedCompleter.get_completion (enhanced_completer.py, line 1151),    *)
(* the commit-message synthesizer, the backend client with its cache, and  *)
(* the history store.  Strings are TLA+ strings handled character by       *)
(* character (Len, SubSeq, \o), so the sanitizers are computed as the      *)
(* Python code computes them.                                              *)
(***************************************************************************)
EXTENDS Integers, Sequences, FiniteSets, TLC

----------------------------------------------------------------------------
(* The state of one completer object and of what it talks to *)

VARIABLES
    cls,               \* the class of the object: ModelCompleter or EnhancedCompleter
    model,             \* self.model
    history,           \* self.history: the last commands asked for
    command_history,   \* self.command_history: the entries loaded and saved
    history_file,      \* the lines of command_history.jsonl
    history_writable,  \* open(history_file, 'a') succeeds
    cache,             \* the files of the cache directory, by key
    timeout,           \* self.client.timeout
    now,               \* time.time()
    corpus,            \* zsh_training_data.jsonl
    git,               \* the repository of the working directory
    tags,              \* what GET /api/tags answers
    cwd_files,         \* the files of the working directory, newest first
    call,              \* the last get_completion call and what it returned
    ncalls,            \* the calls made so far
    seed,              \* the string-hash seed of the running process (PYTHONHASHSEED)
    reply,             \* the last call of the client or of the cache manager
    race,              \* one cache file written and read by concurrent processes
    ext,               \* the external calls of a request that is under way
    run                \* the activations of the request under way, innermost last

vars == <<cls, model, history, command_history, history_file, history_writable, cache,
          timeout, now, corpus, git, tags, cwd_files, call, ncalls, seed, reply, race,
          ext, run>>

\* what a get_completion call leaves alone besides the object's own state
others == <<seed, reply, race, ext, run>>

----------------------------------------------------------------------------
(* Python string primitives *)

Char(s, i) == SubSeq(s, i, i)

DropFirst(s, n) == SubSeq(s, n + 1, Len(s))

IsSpace(c) == c \in {" ", "\n", "\t"}

\* str.lower() on one character
LowerOf ==
    [A |-> "a", B |-> "b", C |-> "c", D |-> "d", E |-> "e", F |-> "f", G |-> "g",
     H |-> "h", I |-> "i", J |-> "j", K |-> "k", L |-> "l", M |-> "m", N |-> "n",
     O |-> "o", P |-> "p", Q |-> "q", R |-> "r", S |-> "s", T |-> "t", U |-> "u",
     V |-> "v", W |-> "w", X |-> "x", Y |-> "y", Z |-> "z"]

LowerChar(c) == IF c \in DOMAIN LowerOf THEN LowerOf[c] ELSE c

\* str.isalpha() on one ASCII character
IsAlpha(c) == c \in DOMAIN LowerOf \/ c \in {LowerOf[u] : u \in DOMAIN LowerOf}

RECURSIVE Lower(_)
Lower(s) == IF s = "" THEN "" ELSE LowerChar(Head(s)) \o Lower(Tail(s))

RECURSIVE LStrip(_)
LStrip(s) == IF s # "" /\ IsSpace(Head(s)) THEN LStrip(Tail(s)) ELSE s

RECURSIVE RStrip(_)
RStrip(s) ==
    IF s # "" /\ IsSpace(Char(s, Len(s))) THEN RStrip(SubSeq(s, 1, Len(s) - 1)) ELSE s

Strip(s) == RStrip(LStrip(s))

StartsWith(s, p) == Len(p) <= Len(s) /\ SubSeq(s, 1, Len(p)) = p

EndsWith(s, p) == Len(p) <= Len(s) /\ SubSeq(s, Len(s) - Len(p) + 1, Len(s)) = p

StartsWithAny(s, P) == \E p \in P : StartsWith(s, p)

\* `p in s`
Contains(s, p) == \E i \in 0..(Len(s) - Len(p)) : SubSeq(s, i + 1, i + Len(p)) = p

ContainsAny(s, P) == \E p \in P : Contains(s, p)

\* the first position of p in s from position i on, 0 when absent
RECURSIVE FindFrom(_, _, _)
FindFrom(s, p, i) ==
    IF i + Len(p) - 1 > Len(s) THEN 0
    ELSE IF SubSeq(s, i, i + Len(p) - 1) = p THEN i
    ELSE FindFrom(s, p, i + 1)

\* s.find(p) + 1: the first position of p in s, 0 when absent
IndexOf(s, p) == FindFrom(s, p, 1)

\* s.split(sep) for a non-empty separator
RECURSIVE Split(_, _)
Split(s, sep) ==
    LET i == IndexOf(s, sep)
    IN  IF i = 0 THEN <<s>>
        ELSE <<SubSeq(s, 1, i - 1)>> \o Split(DropFirst(s, i + Len(sep) - 1), sep)

\* s.split(sep, 1)
SplitOnce(s, sep) ==
    LET i == IndexOf(s, sep)
    IN  IF i = 0 THEN <<s>>
        ELSE <<SubSeq(s, 1, i - 1), DropFirst(s, i + Len(sep) - 1)>>

\* sep.join(parts)
RECURSIVE Join(_, _)
Join(parts, sep) ==
    IF parts = <<>> THEN ""
    ELSE IF Len(parts) = 1 THEN parts[1]
    ELSE parts[1] \o sep \o Join(Tail(parts), sep)

\* s.split(): the maximal runs of non-whitespace characters
RECURSIVE Words(_)
Words(s) ==
    LET t == LStrip(s)
        RECURSIVE WordEnd(_)
        WordEnd(i) == IF i < Len(t) /\ ~IsSpace(Char(t, i + 1)) THEN WordEnd(i + 1) ELSE i
    IN  IF t = "" THEN <<>>
        ELSE LET e == WordEnd(1) IN <<SubSeq(t, 1, e)>> \o Words(DropFirst(t, e))

\* s.replace(p, r) for a non-empty p
RECURSIVE Replace(_, _, _)
Replace(s, p, r) ==
    IF Len(s) < Len(p) THEN s
    ELSE IF StartsWith(s, p) THEN r \o Replace(DropFirst(s, Len(p)), p, r)
    ELSE Head(s) \o Replace(Tail(s), p, r)

\* s.count(c)
Count(s, c) == Cardinality({i \in 1..Len(s) : Char(s, i) = c})

\* seq[-n:]
LastN(seq, n) == IF Len(seq) <= n THEN seq ELSE SubSeq(seq, Len(seq) - n + 1, Len(seq))

\* seq[:n]
FirstN(seq, n) == IF Len(seq) <= n THEN seq ELSE SubSeq(seq, 1, n)

\* the start of the whitespace run that ends just before position i
RECURSIVE SpaceRunStart(_, _)
SpaceRunStart(s, i) ==
    IF i > 1 /\ IsSpace(Char(s, i - 1)) THEN SpaceRunStart(s, i - 1) ELSE i

\* The TLA+ lexer does not accept a backquote inside a string literal: the
\* model writes the backquote character as a tilde (no modelled text holds one).
Backtick == "~"

Fence == Backtick \o Backtick \o Backtick

----------------------------------------------------------------------------
(* The regular expressions of the sanitizers *)

\* re.match(r'^(Output|output):', s, re.IGNORECASE)
HasOutputLabel(s) == StartsWith(Lower(s), "output:")

\* re.sub(r'^(Output|output):\s*', '', s, flags=re.IGNORECASE)
SubOutputLabel(s) == IF HasOutputLabel(s) THEN LStrip(DropFirst(s, 7)) ELSE s

\* re.sub(r'^(Input|Output|input|output):\s*', '', s, flags=re.IGNORECASE)
SubIOLabel(s) ==
    IF StartsWith(Lower(s), "output:") THEN LStrip(DropFirst(s, 7))
    ELSE IF StartsWith(Lower(s), "input:") THEN LStrip(DropFirst(s, 6))
    ELSE s

\* re.sub(r'\s*\(Added by[^)]*\)', '', s)
RECURSIVE SubAddedBy(_)
SubAddedBy(s) ==
    LET p == IndexOf(s, "(Added by")
        rest == DropFirst(s, p + 8)
        q == IndexOf(rest, ")")
    IN  IF p = 0 \/ q = 0 THEN s
        ELSE SubSeq(s, 1, SpaceRunStart(s, p) - 1) \o SubAddedBy(DropFirst(rest, q))

\* re.sub(r'^\s*<label>\s*', '', s, flags=re.IGNORECASE) for a lower-case label
SubLeadingLabel(s, label) ==
    LET t == LStrip(s)
    IN  IF StartsWith(Lower(t), label) THEN LStrip(DropFirst(t, Len(label))) ELSE s

\* re.sub(r'\s*Conventional Commit Message:.*$', '', s, flags=re.IGNORECASE)
\* on a single line
SubCCMSuffix(s) ==
    LET p == IndexOf(Lower(s), "conventional commit message:")
    IN  IF p = 0 THEN s ELSE SubSeq(s, 1, SpaceRunStart(s, p) - 1)

\* re.sub(r'\s*\([^)]*\)\s*$', '', s): a trailing parenthesised group
SubTrailingParen(s) ==
    LET t == RStrip(s)
        e == Len(t)
        \* the opening parentheses from which [^)]*\) reaches the final ")"
        opens == {p \in 1..(e - 1) :
                    /\ Char(t, p) = "("
                    /\ \A k \in (p + 1)..(e - 1) : Char(t, k) # ")"}
    IN  IF e = 0 \/ Char(t, e) # ")" \/ opens = {} THEN s
        ELSE LET p == CHOOSE o \in opens : \A o2 \in opens : o <= o2
             IN  SubSeq(s, 1, SpaceRunStart(s, p) - 1)

CommitTypes == {"feat", "fix", "chore", "docs", "refactor", "test", "style", "perf", "build", "ci"}

\* re.sub(r'^(feat|fix|chore|docs|refactor|test|style|perf|build|ci):\s*', '', s,
\*        count=1, flags=re.IGNORECASE)
SubCommitType(s) ==
    LET hits == {t \in CommitTypes : StartsWith(Lower(s), t \o ":")}
    IN  IF hits = {} THEN s
        ELSE LET t == CHOOSE h \in hits : TRUE IN LStrip(DropFirst(s, Len(t) + 1))

----------------------------------------------------------------------------
(* ModelCompleter.get_completion: the sanitizer (completer.py 102-159) *)

\* the explanatory openers of line 152
ModelDenyPrefixes ==
    {"To complete", "This will", "You can", "Enter", "Run:", "Note:", Fence,
     "Environment:", "User:", "Host:", "Directory:", "Recent:", "Replace",
     "This will launch", "You can now", "This will display", "Suggestion:",
     "Implement:", "Provide", "Git commit is", "Remember,", "By following",
     "Start by", "Next,", "After that", "The command", "You are a",
     "Complete the command", "Command to complete", "Sure,", "Here", "This flag",
     "This option", "This command", "Input:", "Output:", "input:", "output:"}

\* the list markers of line 153 (its bullet-character marker is not ASCII and
\* no modelled text holds it)
ModelListMarkers ==
    {"1.", "2.", "3.", "4.", "5.", "- ", "* ", "6.", "7.", "8.", "9.", "10."}

\* lines 134-144: the "(Added by ...)" and "Conventional Commit Message:" noise
ModelCleanLine(line) ==
    LET parts == Split(line, "\"")
    IN  IF Contains(line, "\"")
        THEN IF Len(parts) >= 3
             THEN LET p1 == Strip(SubLeadingLabel(SubAddedBy(parts[2]),
                                                  "conventional commit message:"))
                      p2 == IF p1 = "" THEN "commit message" ELSE p1
                  IN  Join([parts EXCEPT ![2] = p2], "\"")
             ELSE line
        ELSE SubCCMSuffix(SubAddedBy(line))

\* lines 149-157: a line that looks like an actual command
ModelLooksLikeCommand(line, command) ==
    /\ line # ""
    /\ Len(line) > Len(command)
    /\ Contains(line, " ")
    /\ ~StartsWithAny(line, ModelDenyPrefixes)
    /\ ~StartsWithAny(line, ModelListMarkers)
    /\ ~EndsWith(line, ":")
    /\ ~StartsWith(line, "$")
    /\ ~StartsWith(line, Backtick)
    /\ ~EndsWith(line, Backtick)

\* lines 126-146: one candidate line, cleaned; "" when it is skipped at line 127
ModelCandidate(raw, command) ==
    IF raw = "" \/ Len(raw) <= Len(command) THEN ""
    ELSE Strip(ModelCleanLine(Strip(SubIOLabel(raw))))

\* lines 108-123: the Output: line alone when there is one, else every line
ModelCandidateLines(completion) ==
    LET lines == Split(Strip(completion), "\n")
        labelled == {i \in 1..Len(lines) : HasOutputLabel(Strip(lines[i]))}
        first == CHOOSE i \in labelled : \A j \in labelled : i <= j
        output_line == IF labelled = {} THEN ""
                       ELSE Strip(SubOutputLabel(Strip(lines[first])))
    IN  IF output_line # "" THEN <<output_line>>
        ELSE [i \in 1..Len(lines) |-> Strip(lines[i])]

\* lines 126-159: the first candidate accepted, "" when none is
ModelSanitize(completion, command) ==
    LET cands == ModelCandidateLines(completion)
        ok == {i \in 1..Len(cands) :
                 /\ ModelCandidate(cands[i], command) # ""
                 /\ ModelLooksLikeCommand(ModelCandidate(cands[i], command), command)}
    IN  IF ok = {} THEN ""
        ELSE ModelCandidate(cands[CHOOSE i \in ok : \A j \in ok : i <= j], command)

----------------------------------------------------------------------------
(* ModelCompleter._get_fallback_completion: the training corpus *)

\* lines 242, 248: output.replace("Output:", "").replace("output:", "").strip()
CorpusOutput(rec) == Strip(Replace(Replace(rec.output, "Output:", ""), "output:", ""))

\* line 239: the exact match
CorpusExactMatch(rec, command) == Lower(rec.input) = Lower(command)

\* lines 245-246: the prefix or substring match, not tried for "git" and
\* "git comm"
CorpusPrefixMatch(rec, command) ==
    /\ Lower(Strip(command)) \notin {"git", "git comm"}
    /\ \/ Contains(Lower(rec.input), Lower(command))
       \/ StartsWith(Lower(rec.input), Lower(command))

\* lines 229-252: the output of the first record that matches either way; ""
\* (None) when the file is missing, no record matches, or a line that is not
\* valid JSON is met first (json.loads raises, the except returns None)
GetFallbackCompletion(corp, command) ==
    LET recs == corp.records
        stops == {i \in 1..Len(recs) :
                    \/ recs[i].bad
                    \/ CorpusExactMatch(recs[i], command)
                    \/ CorpusPrefixMatch(recs[i], command)}
        first == CHOOSE i \in stops : \A j \in stops : i <= j
    IN  IF ~corp.exists \/ stops = {} THEN ""
        ELSE IF recs[first].bad THEN ""
        ELSE CorpusOutput(recs[first])

----------------------------------------------------------------------------
(* CacheManager and OllamaClient (cache.py, client.py) *)

\* client.py 68: ttl=3600
CacheTTL == 3600

\* client.py 32: cache_key = f"completion:{model}:{hash(prompt)}".  hash() of
\* a string depends on the seed of the process; for one seed it is taken to
\* be injective on the prompts
CacheKey(m, prompt) == <<m, seed, prompt>>

\* a get that never looks at the expiry of an entry
CacheGetKeepsExpired(files, key, time) ==
    IF key \notin DOMAIN files THEN [value |-> "", files |-> files, raised |-> FALSE]
    ELSE IF files[key].form \in {"garbage", "unreadable"}
    THEN [value |-> "", files |-> files, raised |-> FALSE]
    ELSE IF files[key].form = "nonobject"
    THEN [value |-> "", files |-> files, raised |-> TRUE]
    ELSE [value |-> files[key].value, files |-> files, raised |-> FALSE]

\* cache.py 19-37: CacheManager.get.  value is "" for a miss (None); files is
\* the cache directory afterwards.  A file holds an entry, or text that is
\* not JSON ("garbage", json.load raises JSONDecodeError), or it cannot be
\* opened ("unreadable", IOError), or it holds JSON that is no object
\* ("nonobject": data.get raises AttributeError, which line 36 does not
\* catch).  An expired entry is removed (line 32); no other file is.
CacheGet(files, key, time) ==
    IF key \notin DOMAIN files THEN [value |-> "", files |-> files, raised |-> FALSE]
    ELSE IF files[key].form \in {"garbage", "unreadable"}
    THEN [value |-> "", files |-> files, raised |-> FALSE]
    ELSE IF files[key].form = "nonobject"
    THEN [value |-> "", files |-> files, raised |-> TRUE]
    ELSE IF files[key].expiry < time
         THEN [value |-> "",
               files |-> [k \in DOMAIN files \ {key} |-> files[k]],
               raised |-> FALSE]
    ELSE [value |-> files[key].value, files |-> files, raised |-> FALSE]

\* cache.py 39-54: CacheManager.set
CacheSet(files, key, value, ttl, time) ==
    [k \in DOMAIN files \cup {key} |->
        IF k = key THEN [value |-> value, expiry |-> time + ttl, form |-> "entry"]
        ELSE files[k]]

\* the ways a request to the backend can end: "ok" is HTTP 200 with a JSON
\* object whose "response" is text; "status" any other status; "malformed"
\* HTTP 200 with a body that is not JSON; "unexpected" HTTP 200 with JSON
\* that is no object or whose "response" is no string
OutcomeKinds == {"ok", "status", "timeout", "refused", "malformed", "unexpected"}

\* a request whose answer is stored whether or not the cache is in use
RequestCompletionStoresAlways(files, key, time, use_cache, outcome) ==
    IF outcome.kind = "ok"
    THEN [text |-> Strip(outcome.text),
          files |-> IF Strip(outcome.text) # ""
                    THEN CacheSet(files, key, Strip(outcome.text), CacheTTL, time)
                    ELSE files,
          posted |-> TRUE, hit |-> FALSE, raised |-> FALSE]
    ELSE [text |-> "", files |-> files, posted |-> TRUE, hit |-> FALSE,
          raised |-> outcome.kind = "unexpected"]

\* client.py 39-83: the request and what is made of its answer.  A body that
\* is not JSON makes response.json() raise requests' JSONDecodeError, a
\* RequestException since requests 2.27 (setup.py asks for 2.28 or later),
\* caught at line 80; an unexpected body raises AttributeError at line 64,
\* which nothing catches.
RequestCompletion(files, key, time, use_cache, outcome) ==
    IF outcome.kind = "ok"
    THEN [text |-> Strip(outcome.text),
          files |-> IF use_cache /\ Strip(outcome.text) # ""
                    THEN CacheSet(files, key, Strip(outcome.text), CacheTTL, time)
                    ELSE files,
          posted |-> TRUE, hit |-> FALSE, raised |-> FALSE]
    ELSE [text |-> "", files |-> files, posted |-> TRUE, hit |-> FALSE,
          raised |-> outcome.kind = "unexpected"]

\* client.py 31-37: the cache is looked up first when it is in use
LookupCompletion(got, key, time, use_cache, outcome) ==
    IF got.raised
    THEN [text |-> "", files |-> got.files, posted |-> FALSE, hit |-> FALSE,
          raised |-> TRUE]
    ELSE IF got.value # ""
    THEN [text |-> got.value, files |-> got.files, posted |-> FALSE, hit |-> TRUE,
          raised |-> FALSE]
    ELSE RequestCompletion(got.files, key, time, use_cache, outcome)

\* client.py 26-83: OllamaClient.generate_completion.  text is the value
\* returned (None, taken as "", when the call raises), posted tells whether
\* POST /api/generate was issued, hit whether the value came from the cache,
\* raised whether the call left by an exception
GenerateCompletion(files, time, prompt, m, use_cache, outcome) ==
    LookupCompletion(IF use_cache THEN CacheGet(files, CacheKey(m, prompt), time)
                     ELSE [value |-> "", files |-> files, raised |-> FALSE],
                     CacheKey(m, prompt), time, use_cache, outcome)

\* client.py 85-94: get_available_models, [] on any failure
GetAvailableModels(t) == IF t.ok THEN t.names ELSE <<>>

----------------------------------------------------------------------------
(* EnhancedCompleter._generate_commit_message: the backend's answer *)

\* s[:n]
Prefix(s, n) == IF Len(s) <= n THEN s ELSE SubSeq(s, 1, n)

\* s.strip(c) for one character c
RECURSIVE StripChar(_, _)
StripChar(s, c) ==
    IF s # "" /\ Head(s) = c THEN StripChar(Tail(s), c)
    ELSE IF s # "" /\ Char(s, Len(s)) = c THEN StripChar(SubSeq(s, 1, Len(s) - 1), c)
    ELSE s

\* lines 932-937
GenericPatterns ==
    {"add new functionality", "enhance functionality", "improve functionality",
     "update functionality", "add functionality", "enhance completion functionality",
     "improve code", "update code", "add feature", "new feature", "update feature",
     "enhance completion", "improve completion", "update completion"}

\* line 965
GenericKeywords ==
    {"enhance functionality", "improve functionality", "add functionality",
     "update functionality", "add new functionality", "enhance completion",
     "improve completion", "update completion", "add feature", "new feature",
     "update feature", "improve code", "update code"}

\* line 943
ValidCommitTypes ==
    {"feat", "fix", "refactor", "docs", "test", "chore", "perf", "style", "build", "ci"}

\* lines 944-954: the type of a line whose own type is not a valid one
InferCommitType(subject_lower) ==
    IF ContainsAny(subject_lower, {"add", "new", "feature", "implement", "create"})
    THEN "feat"
    ELSE IF ContainsAny(subject_lower, {"fix", "bug", "error", "issue", "resolve"})
    THEN "fix"
    ELSE IF ContainsAny(subject_lower, {"refactor", "simplify", "restructure"})
    THEN "refactor"
    ELSE "feat"

\* lines 902-911: a line of the answer before it is looked at
CommitLineClean(raw) ==
    LET l1 == Strip(Replace(Replace(Strip(raw), Fence, ""), Backtick, ""))
        l2 == SubLeadingLabel(l1, "conventional commit message:")
    IN  SubLeadingLabel(l2, "commit message:")

\* lines 914-916: explanatory lines are skipped
CommitLineSkipped(line) ==
    \/ StartsWithAny(line, {"Generate", "Format:", "Examples:", "Changes:", "Project:",
                            "File types:", "Here", "Sure", "This"})
    \/ StartsWithAny(line, {"1.", "2.", "3.", "- ", "* "})
    \/ Len(line) < 5

\* lines 957-978: the subject is specific enough
CommitSubjectAccepted(subject) ==
    LET subject_lower == Strip(Lower(subject))
        words == Words(subject_lower)
        is_generic ==
            \/ ContainsAny(subject_lower, GenericKeywords)
            \/ /\ Len(words) <= 3
               /\ Len(words) >= 2
               /\ words[1] \in {"enhance", "improve", "update", "add"}
               /\ words[2] \in {"functionality", "feature", "code", "completion",
                                "implementation"}
        is_placeholder ==
            \/ subject_lower \in {"message", "commit message", "commit"}
            \/ Contains(subject_lower, "commit message")
    IN  /\ Len(subject) >= 5
        /\ ~is_generic
        /\ ~is_placeholder
        /\ Len(Strip(subject)) >= 10

\* lines 919-984: the message taken from one line, "" when the line gives none
CommitMessageOfLine(raw) ==
    LET line == CommitLineClean(raw)
        l3 == SubAddedBy(SubTrailingParen(Strip(line)))
        parts == SplitOnce(l3, ":")
        type0 == Lower(Strip(parts[1]))
        subject0 == Strip(parts[2])
        commit_type == IF type0 \in ValidCommitTypes THEN type0
                       ELSE InferCommitType(Lower(subject0))
        subject == Strip(StripChar(StripChar(subject0, "\""), "'"))
    IN  IF Strip(raw) = "" \/ CommitLineSkipped(line) THEN ""
        ELSE IF ~Contains(Prefix(line, 80), ":") THEN ""
        ELSE IF ~(Len(l3) > 8 /\ Count(l3, ":") >= 1) THEN ""
        ELSE IF ContainsAny(Strip(Lower(subject0)), GenericPatterns) THEN ""
        ELSE IF ~CommitSubjectAccepted(subject) THEN ""
        ELSE commit_type \o ": " \o
             (IF Len(subject) > 72 THEN SubSeq(subject, 1, 69) \o "..." ELSE subject)

\* lines 894-984: the first line of the answer that gives a message
CommitMessageOfAnswer(completion) ==
    LET lines == Split(SubIOLabel(Strip(completion)), "\n")
        ok == {i \in 1..Len(lines) : CommitMessageOfLine(lines[i]) # ""}
    IN  IF ok = {} THEN ""
        ELSE CommitMessageOfLine(lines[CHOOSE i \in ok : \A j \in ok : i <= j])

----------------------------------------------------------------------------
(* The version-control collaborator.  A repository is a record                *)
(*   mode: "repo", "norepo" (git exits non-zero) or "missing" (no git binary) *)
(*   branch, staged, unstaged: the files' names, diff_context: what           *)
(*   _get_git_diff_context extracts from the diff of those files.             *)

\* os.path.basename
RECURSIVE Basename(_)
Basename(path) ==
    LET i == IndexOf(path, "/") IN IF i = 0 THEN path ELSE Basename(DropFirst(path, i))

\* the text `git status --short` prints for the modelled files
GitStatusShort(g) ==
    Join([i \in 1..Len(g.staged) |-> "M  " \o g.staged[i]]
         \o [i \in 1..Len(g.unstaged) |-> " M " \o g.unstaged[i]], "\n")

\* completer.py 55-75: ModelCompleter._get_git_info
GetGitInfo(g) ==
    LET status == Strip(GitStatusShort(g))
    IN  IF g.mode # "repo" THEN ""
        ELSE IF status # ""
        THEN "- Git Branch: " \o g.branch \o "\n- Git Status: " \o status
        ELSE "- Git Branch: " \o g.branch

\* lines 604-696: the files_changed of _analyze_git_changes: the staged files
\* when there are any, else the unstaged ones; raised is the exception that
\* leaves it (none is caught for the modelled modes)
AnalyzeGitChanges(g) ==
    [raised |-> FALSE,
     files_changed |-> IF g.mode # "repo" THEN <<>>
                       ELSE IF g.staged # <<>> THEN g.staged
                       ELSE g.unstaged]

\* lines 395-602: _get_git_diff_context, "" outside a repository
GetGitDiffContext(g) == IF g.mode = "repo" THEN g.diff_context ELSE ""

\* lines 996-1003: the subjects the diff and commit keywords give
DiffSubjects12(diff_context, dl) ==
    (IF Contains(diff_context, "_get_git_diff") \/ Contains(diff_context, "get_git_diff")
     THEN <<"add git diff parsing to extract code changes">> ELSE <<>>)
    \o (IF \/ Contains(dl, "commit message")
           \/ Contains(diff_context, "generate_commit")
           \/ Contains(dl, "generate commit")
        THEN <<"improve commit message generation">>
             \o (IF Contains(dl, "diff") \/ Contains(dl, "context")
                 THEN <<"enhance commit messages with diff analysis">> ELSE <<>>)
        ELSE <<>>)

\* lines 1006-1012: a function was touched and nothing is said yet
DiffSubjects3(dl, subject_parts) ==
    subject_parts
    \o (IF (Contains(dl, "function") \/ Contains(dl, "def ")) /\ subject_parts = <<>>
        THEN IF Contains(dl, "diff") \/ Contains(dl, "git") \/ Contains(dl, "context")
             THEN <<"enhance git diff analysis">>
             ELSE IF Contains(dl, "commit")
             THEN <<"improve commit message generation">>
             ELSE <<"add new functionality">>
        ELSE <<>>)

\* lines 1019-1020: parsing, extraction or analysis is mentioned
DiffSubjects4(dl, subject_parts) ==
    subject_parts
    \o (IF /\ Contains(dl, "parse") \/ Contains(dl, "extract") \/ Contains(dl, "analyze")
           /\ subject_parts = <<>>
        THEN <<"improve code analysis and extraction">> ELSE <<>>)

\* lines 1023-1032: the first function named by the diff context
DiffSubjects5(func_names) ==
    IF func_names # "" /\ Len(func_names) < 50
    THEN IF Contains(Lower(func_names), "diff") \/ Contains(Lower(func_names), "git")
         THEN <<"add " \o Replace(func_names, "_", " ") \o " functionality">>
         ELSE IF Contains(Lower(func_names), "commit")
         THEN <<"enhance commit message generation">>
         ELSE <<>>
    ELSE <<>>

\* lines 1041-1048: a subject of fewer than 15 characters is expanded
ExpandSubject(subject) ==
    IF Len(subject) >= 15 THEN subject
    ELSE IF Contains(Lower(subject), "git")
    THEN "enhance git diff analysis for commit messages"
    ELSE IF Contains(Lower(subject), "commit")
    THEN "improve commit message generation from code changes"
    ELSE "add " \o subject \o " functionality"

\* lines 1051-1052: at most 72 characters
Truncate72(subject) ==
    IF Len(subject) > 72 THEN SubSeq(subject, 1, 69) \o "..." ELSE subject

\* lines 1035-1053: the message for the subjects found, "" when there is none
MessageOfSubjects(subject_parts, preferred) ==
    IF subject_parts = <<>> THEN ""
    ELSE "feat: " \o Truncate72(ExpandSubject(IF preferred # <<>> THEN preferred[1]
                                             ELSE subject_parts[1]))

\* line 1037: the subjects that mention the diff or the commit
PreferredSubjects(subject_parts) ==
    SelectSeq(subject_parts,
              LAMBDA s : Contains(Lower(s), "diff") \/ Contains(Lower(s), "commit"))

\* lines 1035-1053: the preferred subjects when there are any, else all
MessageOfAllSubjects(subject_parts) ==
    MessageOfSubjects(subject_parts, PreferredSubjects(subject_parts))

\* lines 986-1053: the message made up from the diff context, "" when none
LocalMessageFromDiff(diff_context) ==
    IF ~(diff_context # "" /\ Len(diff_context) > 20) THEN ""
    ELSE MessageOfAllSubjects(
             DiffSubjects4(Lower(diff_context),
                 DiffSubjects3(Lower(diff_context),
                     DiffSubjects12(diff_context, Lower(diff_context))))
             \o (IF Contains(diff_context, "Functions:")
                 THEN DiffSubjects5(Strip(Split(Split(diff_context, "Functions:")[2], ",")[1]))
                 ELSE <<>>))

\* lines 1055-1087: the message made up from the changed files' names, ""
\* (None) when the first file's name says nothing
LocalMessageFromFiles(files_changed) ==
    LET names == [i \in 1..Len(files_changed) |-> Basename(files_changed[i])]
        all == Lower(Join(names, " "))
        commit_type ==
            IF ContainsAny(all, {"fix", "bug", "error"}) THEN "fix"
            ELSE IF ContainsAny(all, {"refactor", "clean"}) THEN "refactor"
            ELSE IF Contains(all, "test") THEN "test"
            ELSE IF ContainsAny(all, {"doc", "readme"}) THEN "docs"
            ELSE "feat"
        primary == Lower(names[1])
    IN  IF Contains(primary, "completer")
        THEN commit_type \o ": improve command completion with better context analysis"
        ELSE IF Contains(primary, "train")
        THEN commit_type \o ": improve training process with better data handling"
        ELSE IF Contains(primary, "lora")
        THEN commit_type \o ": update LoRA training workflow with improved configuration"
        ELSE IF Contains(primary, "enhanced")
        THEN commit_type \o ": enhance completion logic with improved functionality extraction"
        ELSE ""

\* lines 894-1087: the backend's message when it gave one, else the message
\* from the diff, else the one from the files' names
FirstMessage(from_backend, from_diff, from_files) ==
    IF from_backend # "" THEN [text |-> from_backend, origin |-> "backend"]
    ELSE IF from_diff # "" THEN [text |-> from_diff, origin |-> "local"]
    ELSE [text |-> from_files, origin |-> "local"]

\* lines 757-1096: _generate_commit_message for the text the backend call
\* returned.  origin tells where the message comes from.
GenerateCommitMessage(files_changed, diff_context, completion) ==
    IF files_changed = <<>> THEN [text |-> "WIP", origin |-> "local"]
    ELSE FirstMessage(CommitMessageOfAnswer(completion), LocalMessageFromDiff(diff_context),
                      LocalMessageFromFiles(files_changed))

\* lines 1110-1142: what get_smart_commit_message lets through, "" for None
SmartCommitFilter(message) ==
    LET m == Strip(SubIOLabel(message))
        subject == Strip(SplitOnce(m, ":")[2])
    IN  IF message = "" THEN ""
        ELSE IF Strip(Lower(m)) \in {"wip", "commit message", "message"} THEN ""
        ELSE IF ~Contains(m, ":")
        THEN IF Strip(Lower(m)) \in {"update", "changes", "fix", "feat", "chore"} THEN "" ELSE m
        ELSE IF Len(subject) < 3 THEN ""
        ELSE IF Strip(Lower(subject)) \in {"message", "commit message"} THEN ""
        ELSE m

\* lines 1212-1226: the smart message is used
SmartMessageUsed(smart_message) ==
    LET smart_lower == Strip(Lower(smart_message))
        is_placeholder ==
            \/ smart_lower \in {"commit message", "message", "wip"}
            \/ Contains(smart_lower, "commit message")
            \/ Strip(smart_message) = "\"commit message\""
            \/ Strip(smart_message) = "'commit message'"
    IN  /\ smart_message # "" /\ Strip(smart_message) # ""
        /\ ~is_placeholder
        /\ Len(smart_lower) > 8
        /\ Contains(smart_message, ":")
        /\ ~StartsWith(smart_lower, "commit message")

----------------------------------------------------------------------------
(* Context: the project, the history, the prompt *)

\* str(n) for the small counts of the model
IntStr(n) == IF n < 10 THEN Char("0123456789", n + 1) ELSE "many"

\* lines 65-132: _detect_project_context for the files of the working
\* directory, newest first.  Each marker test assigns project_type, so the
\* last test that succeeds decides it.  (package.json is taken to declare none
\* of react, vue, express.)
DetectProjectContext(files) ==
    LET has(f) == \E i \in 1..Len(files) : files[i] = f
        t1 == IF has("package.json") THEN "node" ELSE "unknown"
        t2 == IF has("requirements.txt") \/ has("pyproject.toml") \/ has("setup.py")
              THEN "python" ELSE t1
        t3 == IF has("pom.xml") \/ has("build.gradle") THEN "java" ELSE t2
        t4 == IF has("Cargo.toml") THEN "rust" ELSE t3
        t5 == IF has("go.mod") THEN "go" ELSE t4
    IN  [project_type |-> t5,
         has_docker |-> has("Dockerfile") \/ has("docker-compose.yml"),
         has_k8s |-> \E i \in 1..Len(files) : EndsWith(files[i], ".yaml"),
         files |-> FirstN(files, 10)]

\* Counter(...).most_common(5): the five most frequent items, the earlier
\* first among equally frequent ones
MostCommon5(items) ==
    LET count(w) == Cardinality({i \in 1..Len(items) : items[i] = w})
        first(w) == CHOOSE i \in 1..Len(items) :
                        items[i] = w /\ \A j \in 1..(i - 1) : items[j] # w
        range == {items[i] : i \in 1..Len(items)}
        beats(v, w) == count(v) > count(w) \/ (count(v) = count(w) /\ first(v) < first(w))
    IN  {w \in range : Cardinality({v \in range : beats(v, w)}) < 5}

\* lines 134-162: _get_user_patterns.  h['command'].split()[0] raises
\* IndexError on a blank command of the history.
GetUserPatterns(command, chist) ==
    LET last50 == LastN(chist, 50)
        last100 == LastN(chist, 100)
        cmd_base == IF Words(command) # <<>> THEN Words(command)[1] ELSE command
        similar == SelectSeq(last50, LAMBDA h : Words(h.command)[1] = cmd_base)
    IN  IF \E i \in 1..Len(last100) : Words(last100[i].command) = <<>>
        THEN [raised |-> TRUE, similar_commands |-> <<>>, frequent_commands |-> {}]
        ELSE [raised |-> FALSE,
              similar_commands |-> LastN([i \in 1..Len(similar) |-> similar[i].command], 5),
              frequent_commands |->
                  MostCommon5([i \in 1..Len(last100) |-> Words(last100[i].command)[1]])]

\* lines 184-206: the recent commands of the prompt
RecentCommands(hist, chist) ==
    LET from_session == IF Len(hist) > 1
                        THEN IF Len(hist) > 4 THEN SubSeq(hist, Len(hist) - 3, Len(hist) - 1)
                             ELSE SubSeq(hist, 1, Len(hist) - 1)
                        ELSE <<>>
        recent_entries == LastN(chist, 5)
        executed == SelectSeq([i \in 1..Len(recent_entries) |-> recent_entries[i].completion],
                              LAMBDA c : c # "" /\ Strip(c) # "")
    IN  IF from_session # <<>> THEN from_session ELSE LastN(executed, 3)

\* lines 169-179 and 208-245: the context string
PromptContext(command, pc, g, patterns) ==
    LET info == Split(GetGitInfo(g), "\n")
        br == {i \in 1..Len(info) : Contains(info[i], "Branch:")}
        st == {i \in 1..Len(info) : Contains(info[i], "Status:")}
        last(S) == CHOOSE i \in S : \A j \in S : j <= i
        git_branch == IF br = {} THEN "" ELSE Strip(Split(info[last(br)], "Branch:")[2])
        git_status == IF st = {} THEN "" ELSE Strip(Split(info[last(st)], "Status:")[2])
        parts ==
            (IF pc.project_type # "unknown" THEN <<"Project: " \o pc.project_type>> ELSE <<>>)
            \o (IF pc.has_docker THEN <<"Has Docker">> ELSE <<>>)
            \o (IF pc.has_k8s THEN <<"Has Kubernetes">> ELSE <<>>)
            \o (IF git_branch # "" THEN <<"Git branch: " \o git_branch>> ELSE <<>>)
            \o (IF git_status # "" /\ Contains(git_status, "M")
                THEN <<"Has uncommitted changes">> ELSE <<>>)
            \o (IF Strip(command) = "git" /\ pc.git_unstaged > 0
                THEN <<"Has " \o IntStr(pc.git_unstaged) \o " unstaged file(s)">> ELSE <<>>)
            \o (IF Strip(command) = "git" /\ pc.git_staged > 0
                THEN <<"Has " \o IntStr(pc.git_staged) \o " staged file(s)">> ELSE <<>>)
            \o (IF Strip(command) = "git" /\ pc.git_unstaged = 0 /\ pc.git_staged = 0
                THEN <<"No uncommitted changes">> ELSE <<>>)
            \o (IF patterns.similar_commands # <<>>
                THEN <<"Recent similar: "
                       \o patterns.similar_commands[Len(patterns.similar_commands)]>>
                ELSE <<>>)
            \o (IF pc.files # <<>>
                THEN <<"Recent files: " \o Join(FirstN(pc.files, 3), ", ")>> ELSE <<>>)
    IN  Join(parts, " | ")

PromptInstruction ==
    "\n\nOutput ONLY the complete command, nothing else. No explanations, no prefixes like 'Complete command:' or 'The command is:'. Just the command itself."

\* lines 164-271: _build_enhanced_prompt; raised when it leaves by IndexError
\* (the history holds a blank command, or the command itself is blank and
\* the history is not empty: command.split()[0], line 263)
BuildEnhancedPrompt(command, hist, chist, pc, g) ==
    LET patterns == GetUserPatterns(command, chist)
        recent == RecentCommands(hist, chist)
        context_str == PromptContext(command, pc, g, patterns)
        parts ==
            <<"Complete this command: " \o command>>
            \o (IF recent # <<>>
                THEN <<"\nRecent command sequence: " \o Join(recent, " -> "),
                       "Based on the current state and context, suggest the most appropriate completion.">>
                ELSE <<>>)
            \o (IF context_str # "" THEN <<"\nContext: " \o context_str>> ELSE <<>>)
            \o (IF patterns.frequent_commands # {}
                   /\ Words(command)[1] \in patterns.frequent_commands
                THEN <<"\n(User frequently uses this command type)">> ELSE <<>>)
    IN  IF patterns.raised \/ (patterns.frequent_commands # {} /\ Words(command) = <<>>)
        THEN [raised |-> TRUE, text |-> ""]
        ELSE [raised |-> FALSE, text |-> Join(parts, "\n") \o PromptInstruction]

----------------------------------------------------------------------------
(* EnhancedCompleter.get_completion (line 1151): the sanitizers *)

\* lines 1160-1171, 1245-1251, 879-885: the fine-tuned model when listed
PreferredModel(configured, names) ==
    LET zsh == {i \in 1..Len(names) : StartsWith(names[i], "zsh-assistant")}
    IN  IF zsh = {} THEN configured ELSE names[CHOOSE i \in zsh : \A j \in zsh : i <= j]

\* line 1202: a commit command that has no message argument yet
CommitIntent(command) ==
    /\ StartsWith(Strip(command), "git comm") \/ Contains(command, "git commit")
    /\ ~(Contains(command, "-m") \/ Contains(command, "--message"))

\* lines 1320-1323 and 1261-1265: a placeholder commit message
MentionsPlaceholder(line) ==
    LET line_lower == Lower(line)
    IN  \/ Contains(line_lower, "commit message")
        \/ Strip(line_lower) = "message"
        \/ Strip(line_lower) = "\"commit message\""
        \/ Strip(line_lower) = "'commit message'"

\* line 1326
RejectPrefixes ==
    {"Complete command:", "The command", "You should", "Run:", "To complete",
     "This will", "You can", "Enter", "Note:", "Suggestion:", "Output:", "Context:",
     "Project:"}

\* a line is taken only when it starts with the whole input
ExtendsCommand(line, command) ==
    /\ line # ""
    /\ Len(line) > Len(command)
    /\ StartsWith(line, command)

\* lines 1330-1337: the line is taken as the completion
EnhancedLooksLikeCommand(line, command) ==
    /\ line # ""
    /\ Len(line) > Len(command)
    /\ ~StartsWithAny(line, {"To complete", "This will", "You can", "Run:", "Note:",
                             "Suggestion:", "Output:", "Context:", "Project:"})
    /\ ~StartsWithAny(line, {"1.", "2.", "3.", "- ", "* "})
    /\ ~EndsWith(line, ":")
    /\ ~StartsWith(line, "$")
    /\ ~StartsWith(line, Backtick)
    /\ ~EndsWith(line, Backtick)
    /\ ~Contains(Prefix(line, 20), "|")
    /\ \/ Contains(Lower(line), Lower(command))
       \/ StartsWith(line, IF Words(command) # <<>> THEN Words(command)[1] ELSE command)
    /\ IsAlpha(Char(line, 1)) \/ Char(line, 1) \in {".", "/"}

\* lines 1316-1337: one line of the answer, "" when it is not taken
EnhancedLine(raw, command) ==
    LET line == Strip(Replace(Strip(raw), Fence, ""))
    IN  IF MentionsPlaceholder(line) THEN ""
        ELSE IF \/ StartsWithAny(line, RejectPrefixes)
                \/ ContainsAny(Lower(line), {"the logical", "next step", "you should",
                                            "complete command:"})
        THEN ""
        ELSE IF EnhancedLooksLikeCommand(line, command) THEN line
        ELSE ""

\* lines 1312-1352: the first line of the answer that is taken, "" when none
EnhancedSanitize(completion, command) ==
    LET lines == Split(Strip(completion), "\n")
        ok == {i \in 1..Len(lines) : EnhancedLine(lines[i], command) # ""}
    IN  IF completion = "" \/ ok = {} THEN ""
        ELSE EnhancedLine(lines[CHOOSE i \in ok : \A j \in ok : i <= j], command)

\* lines 1258-1283: the message taken from one line of the fallback answer
FallbackCommitOfLine(raw) ==
    LET line == Strip(raw)
        commit_msg == SubCommitType(Strip(line))
        msg_lower == Lower(commit_msg)
    IN  IF MentionsPlaceholder(line) \/ StartsWith(Lower(line), "commit message") THEN ""
        ELSE IF ~(/\ Contains(line, ":")
                  /\ Len(line) > 10
                  /\ ~StartsWithAny(line, {"To", "Here", "Sure", "Format", "Complete",
                                           "The command"}))
        THEN ""
        ELSE IF /\ Len(commit_msg) > 5
                /\ ~Contains(msg_lower, "commit message")
                /\ Strip(msg_lower) # "message"
                /\ ~StartsWith(msg_lower, "commit message")
        THEN commit_msg
        ELSE ""

\* lines 1253-1285: the first line of the fallback answer that gives a message
FallbackCommitOfAnswer(ai_completion) ==
    LET lines == Split(Strip(ai_completion), "\n")
        ok == {i \in 1..Len(lines) : FallbackCommitOfLine(lines[i]) # ""}
    IN  IF ai_completion = "" \/ ok = {} THEN ""
        ELSE FallbackCommitOfLine(lines[CHOOSE i \in ok : \A j \in ok : i <= j])

\* lines 1227 and 1278
CommitCommand(message) == "git commit -m \"" \o message \o "\""

\* the corpus as the last resort for commit commands as well
CorpusFallbackForAll(corp, command) == GetFallbackCompletion(corp, command)

\* lines 1359-1371: the corpus as the last resort of the general path
EnhancedCorpusFallback(corp, command) ==
    LET fb == GetFallbackCompletion(corp, command)
    IN  IF StartsWith(Strip(command), "git comm") \/ Contains(command, "git commit") THEN ""
        ELSE IF Contains(Lower(fb), "commit message") /\ Contains(fb, "\"commit message\"")
        THEN ""
        ELSE fb

----------------------------------------------------------------------------
(* The completer object: its constants and the steps of get_completion *)

\* completer.py 15: the client's timeout when the configuration gives none
DefaultTimeout == 30

\* enhanced_completer.py 875, 1242, 1299: the timeouts of the three requests
CommitTimeout == 15

FallbackTimeout == 10

InteractiveTimeout == 5

\* completer.py 80-83 and lines 1153-1155: self.history
UpdateHistory(hist, command) ==
    IF command # "" /\ (hist = <<>> \/ hist[Len(hist)] # command)
    THEN LastN(Append(hist, command), 10)
    ELSE hist

\* lines 1157 and 1176-1198: self.project_context of this call
ProjectContext(command) ==
    LET pc == DetectProjectContext(cwd_files)
        counted == Strip(command) = "git" /\ git.mode = "repo"
    IN  [project_type |-> pc.project_type, has_docker |-> pc.has_docker,
         has_k8s |-> pc.has_k8s, files |-> pc.files,
         git_unstaged |-> IF counted THEN Len(git.unstaged) ELSE 0,
         git_staged |-> IF counted THEN Len(git.staged) ELSE 0]

\* one POST /api/generate as the backend saw it
Post(m, t, prompt, outcome) ==
    [model |-> m, timeout |-> t, prompt |-> prompt, outcome |-> outcome]

\* lines 798-870: the prompt of _generate_commit_message (the line counts
\* of the change are taken to be unavailable)
CommitPrompt(diff_context) ==
    "Write a SPECIFIC commit message:\n\n"
    \o (IF diff_context # "" /\ Len(diff_context) > 20
        THEN "Code changes:\n" \o diff_context
        ELSE "No code changes detected")
    \o "\n\nWrite ONLY the commit message:"

\* lines 1108-1142: the generated message after the filter of
\* get_smart_commit_message
SmartMessageOf(gen) ==
    [text |-> SmartCommitFilter(gen.text), origin |-> gen.origin, posted |-> TRUE]

\* lines 1098-1149 with 757-1096: get_smart_commit_message.  o is how the
\* request of _generate_commit_message ends.
GetSmartCommitMessage(o) ==
    IF AnalyzeGitChanges(git).files_changed = <<>>
    THEN [text |-> "", origin |-> "local", posted |-> FALSE]
    ELSE SmartMessageOf(GenerateCommitMessage(AnalyzeGitChanges(git).files_changed,
                                              GetGitDiffContext(git),
                                              IF o.kind = "ok" THEN Strip(o.text) ELSE ""))

\* what a call comes to: the string returned, the tier it comes from, the
\* requests made, whether the cache answered, and the cache afterwards
Resolution(result, source, origin, posts, hit, files) ==
    [result |-> result, source |-> source, origin |-> origin, posts |-> posts,
     hit |-> hit, files |-> files]

\* lines 1212-1294: the smart message, else the message of the fallback
\* answer, else the command itself.  posts1 are the requests made for the
\* smart message; the fallback request is made when the prompt was built.
CommitResolution(command, smart, posts1, prompt_raised, post2, msg) ==
    IF SmartMessageUsed(smart.text)
    THEN Resolution(CommitCommand(smart.text), "smart_commit", smart.origin, posts1,
                    FALSE, cache)
    ELSE IF ~prompt_raised /\ msg # ""
    THEN Resolution(CommitCommand(msg), "ai_fallback", "backend", Append(posts1, post2),
                    FALSE, cache)
    ELSE Resolution(command, "identity", "input",
                    IF prompt_raised THEN posts1 ELSE Append(posts1, post2), FALSE, cache)

\* lines 1239-1252: the fallback request for the prompt built
CommitFallback(command, m, smart, posts1, prompt, o2) ==
    CommitResolution(command, smart, posts1, prompt.raised,
                     Post(m, FallbackTimeout, prompt.text, o2),
                     FallbackCommitOfAnswer(IF o2.kind = "ok" THEN Strip(o2.text) ELSE ""))

\* lines 1204-1210: the request for the smart message
CommitSmart(command, hist, m, smart, o1, o2) ==
    CommitFallback(command, m, smart,
                   IF smart.posted
                   THEN <<Post(m, CommitTimeout, CommitPrompt(GetGitDiffContext(git)), o1)>>
                   ELSE <<>>,
                   BuildEnhancedPrompt(command, hist, command_history,
                                       ProjectContext(command), git),
                   o2)

\* lines 1202-1294: get_completion for a commit command without a message
EnhancedCommit(command, hist, o1, o2) ==
    CommitSmart(command, hist, PreferredModel(model, GetAvailableModels(tags)),
                GetSmartCommitMessage(o1), o1, o2)

\* lines 1338-1374 and completer.py 158-169: the accepted line, else the
\* corpus output, else the command itself
Tiered(command, line, fb, posts, hit, files) ==
    IF line # ""
    THEN Resolution(line, "ai", IF hit THEN "cache" ELSE "backend", posts, hit, files)
    ELSE IF fb # ""
    THEN Resolution(fb, "training_data", "corpus", posts, hit, files)
    ELSE Resolution(command, "identity", "input", posts, hit, files)

\* lines 1312-1371: the answer gc of the client is sanitized
GeneralAnswered(command, m, prompt, gc, o) ==
    Tiered(command, EnhancedSanitize(gc.text, command),
           EnhancedCorpusFallback(corpus, command),
           IF gc.posted THEN <<Post(m, InteractiveTimeout, prompt.text, o)>> ELSE <<>>,
           gc.hit, gc.files)

\* lines 1296-1310: the request, unless building the prompt raised
GeneralPrompted(command, use_cache, m, prompt, o) ==
    IF prompt.raised
    THEN Tiered(command, "", EnhancedCorpusFallback(corpus, command), <<>>, FALSE, cache)
    ELSE GeneralAnswered(command, m, prompt,
                         GenerateCompletion(cache, now, prompt.text, m, use_cache, o), o)

\* lines 1296-1374: get_completion for every other command
EnhancedGeneral(command, use_cache, hist, o) ==
    GeneralPrompted(command, use_cache, PreferredModel(model, GetAvailableModels(tags)),
                    BuildEnhancedPrompt(command, hist, command_history,
                                        ProjectContext(command), git),
                    o)

\* completer.py 85-93: zsh-assistant when the backend lists it
ModelToUse ==
    IF /\ model # "zsh-assistant"
       /\ \E i \in 1..Len(GetAvailableModels(tags)) :
              GetAvailableModels(tags)[i] = "zsh-assistant"
    THEN "zsh-assistant" ELSE model

\* completer.py 102-169: the answer gc of the client is sanitized
ModelAnswered(command, m, gc, o) ==
    Tiered(command, ModelSanitize(gc.text, command), GetFallbackCompletion(corpus, command),
           IF gc.posted THEN <<Post(m, timeout, command, o)>> ELSE <<>>, gc.hit, gc.files)

\* completer.py 77-169: ModelCompleter.get_completion
ModelResolution(command, use_cache, o) ==
    ModelAnswered(command, ModelToUse,
                  GenerateCompletion(cache, now, command, ModelToUse, use_cache, o), o)

\* what is recorded of a call
CallRecord(command, use_cache, r) ==
    [op |-> cls, command |-> command, use_cache |-> use_cache, result |-> r.result,
     source |-> r.source, origin |-> r.origin, posts |-> r.posts, hit |-> r.hit]

----------------------------------------------------------------------------
(* The inputs and the environments explored *)

Answer(text) == [kind |-> "ok", text |-> text]

Failure(kind) == [kind |-> kind, text |-> ""]

\* the backend is down, slow, in error, or answers with an empty body
Failures == {Failure("timeout"), Failure("refused"), Failure("status"), Answer("")}

CurlCommand == "curl -H \"Authorization\""

CurlAnswer == "curl -H \"Authorization: Bearer TOKEN\" https://api.example.com"

LabelledAnswer == "Some reasoning.\nOutput: docker run -it nginx"

ExplanatoryAnswer == "This will run the container.\nYou can stop it with docker stop."

Commands ==
    {"", " ", "git comm", "git commit", "git commit -m", "docker run", "docker", "7z x",
     CurlCommand}

Answers ==
    {Answer("docker run -it nginx"),
     Answer(LabelledAnswer),
     Answer("docker run --rm alpine\nOutput: docker run -it nginx"),
     Answer(ExplanatoryAnswer),
     Answer("Note: this describes the change"),
     Answer("11. Then run docker ps"),
     Answer("Run the following:"),
     Answer("chore: update"),
     Answer("fix: commit message"),
     Answer("feat: add retry logic to the backend client"),
     Answer(CurlAnswer),
     Answer("7z x archive.zip"),
     Answer(Fence \o "docker run -d redis" \o Fence)}

Outcomes == Failures \cup Answers

Record(input, output) == [input |-> input, output |-> output, bad |-> FALSE]

NoCorpus == [exists |-> FALSE, records |-> <<>>]

\* a corpus in the shape of the shipped one
Corpus1 ==
    [exists |-> TRUE,
     records |-> <<Record("git comm", "git commit -m \"msg\""),
                   Record("git commit", "git commit -m \"commit message\""),
                   Record("docker run", "docker run -it --name container image:tag"),
                   Record("git commit -m", "git commit -m \"update docs\"")>>]

\* a corpus where a longer input precedes the exact one
Corpus2 ==
    [exists |-> TRUE,
     records |-> <<Record("docker run -d", "Output: docker run -d nginx"),
                   Record("docker run", "docker run -it --name container image:tag")>>]

Corpora == {NoCorpus, Corpus1, Corpus2}

Repo(mode, staged, diff_context) ==
    [mode |-> mode, branch |-> "main", staged |-> staged, unstaged |-> <<>>,
     diff_context |-> diff_context]

NoGit == Repo("missing", <<>>, "")

NoRepo == Repo("norepo", <<>>, "")

\* a staged file whose name the local fallback knows
RepoCompleter == Repo("repo", <<"src/completer.py">>, "")

\* a staged file with a function added
RepoFunction == Repo("repo", <<"foo.txt">>, "Functions: parse_args(argv)")

\* a staged file about which nothing is known locally
RepoPlain == Repo("repo", <<"foo.txt">>, "")

Repos == {NoGit, NoRepo, RepoCompleter, RepoFunction, RepoPlain}

TagsDown == [ok |-> FALSE, names |-> <<>>]

TagsUp == [ok |-> TRUE, names |-> <<"llama2:latest", "zsh-assistant:latest">>]

Entry(command, completion, source) ==
    [command |-> command, completion |-> completion, source |-> source]

\* command_history.jsonl when the object is constructed: what it holds and
\* whether it can be appended to
Store(file, writable) == [file |-> file, writable |-> writable]

Stores ==
    {Store(<<>>, TRUE), Store(<<>>, FALSE),
     Store(<<Entry("docker ps", "docker ps -a", "ai")>>, TRUE)}

\* an environment; nothing is installed where there is no git
Environment(c, g, h) ==
    [corpus |-> c, git |-> g, tags |-> IF g.mode = "missing" THEN TagsDown ELSE TagsUp,
     store |-> h, cwd_files |-> <<>>]

Environments == {Environment(c, g, h) : c \in Corpora, g \in Repos, h \in Stores}

\* the answers tried for the second request of a commit completion
FallbackOutcomes ==
    {Failure("refused"), Answer("chore: update"), Answer("fix: commit message"),
     Answer("Note: this describes the change"),
     Answer("feat: add retry logic to the backend client")}

NoCall ==
    [op |-> "none", command |-> "", use_cache |-> FALSE, result |-> "",
     source |-> "none", origin |-> "none", posts |-> <<>>, hit |-> FALSE]

EmptyCache == [k \in {} |-> [value |-> "", expiry |-> 0, form |-> "entry"]]

\* no call of the client yet
NoReply == [op |-> "none"]

\* the processes that write the cache file under concurrent access
Writers == {"A", "B"}

\* no cache file yet: no writer has begun, the reader has read nothing.  pc is
\* where each writer is in CacheManager.set, value what it writes, checked
\* whether the reader has seen the file exist, got what its last get returned
NoRace ==
    [file |-> "", exists |-> FALSE,
     pc |-> [p \in Writers |-> "start"], value |-> [p \in Writers |-> ""],
     checked |-> FALSE, got |-> "none"]

\* an external call: the tool, what is asked of it, the timeout it is given
\* (0 when none is given), whether a non-zero exit status raises (check=True),
\* and the line of the call
Call(tool, request, t, check, line) ==
    [tool |-> tool, request |-> request, timeout |-> t, check |-> check, line |-> line]

\* no request under way: op is the operation, at the call it stands before,
\* last the call issued last with its result, returned what the operation gave
NoExt ==
    [op |-> "none", command |-> "", at |-> "idle",
     last |-> [tool |-> "none", request |-> "", timeout |-> 0, check |-> FALSE,
               line |-> 0, result |-> "none"],
     returned |-> ""]

----------------------------------------------------------------------------
(* Construction and the operations *)

\* lines 44 and 59-60: the entries kept in memory
HistoryLimit == 100

\* a line of command_history.jsonl that json.loads rejects
Unparsable == [command |-> "", completion |-> "", source |-> "not json"]

Parses(line) == line # Unparsable

\* _load_history (lines 33-44): the lines are parsed in order; the first one
\* that does not parse ends the loop by its exception (lines 42-43) and the
\* entries read before it are kept; the last HistoryLimit of them are returned
LoadHistory(file) ==
    LET bad == {i \in 1..Len(file) : ~Parses(file[i])}
        n   == IF bad = {} THEN Len(file)
               ELSE (CHOOSE i \in bad : \A j \in bad : i <= j) - 1
    IN  LastN(SubSeq(file, 1, n), HistoryLimit)

\* no request under way: stack holds the activations of the operations that
\* have been entered and not left, last what the outermost one did when it
\* returned
NoRun == [stack |-> <<>>, last |-> [fn |-> "none", how |-> "none", entry |-> 0]]

\* ModelCompleter.__init__ (completer.py 12-18) and EnhancedCompleter.__init__
\* (lines 20-25, with _load_history, lines 33-44) in one of the environments
Construct(envs) ==
    \E e \in envs :
        /\ cls \in {"ModelCompleter", "EnhancedCompleter"}
        /\ model = IF cls = "EnhancedCompleter" THEN "zsh-assistant" ELSE "llama2"
        /\ history = <<>>
        /\ history_file = e.store.file
        /\ command_history = IF cls = "EnhancedCompleter" THEN LoadHistory(e.store.file)
                             ELSE <<>>
        /\ history_writable = e.store.writable
        /\ cache = EmptyCache
        /\ timeout = IF "timeout" \in DOMAIN e THEN e.timeout ELSE DefaultTimeout
        /\ now = 0
        /\ corpus = e.corpus
        /\ git = e.git
        /\ tags = e.tags
        /\ cwd_files = e.cwd_files
        /\ call = NoCall
        /\ ncalls = 0
        /\ seed = 1
        /\ reply = NoReply
        /\ race = IF "race" \in DOMAIN e THEN e.race ELSE NoRace
        /\ ext = NoExt
        /\ run = NoRun

\* the entry is kept whether or not the file can be opened
SaveCommandAlways(entry) ==
    /\ history_file' = Append(history_file, entry)
    /\ command_history' = LastN(Append(command_history, entry), HistoryLimit)

\* _save_command (lines 46-63): the entry is written to the file and then
\* kept in memory; nothing happens when the file cannot be opened
SaveCommand(entry) ==
    IF history_writable
    THEN /\ history_file' = Append(history_file, entry)
         /\ command_history' = LastN(Append(command_history, entry), HistoryLimit)
    ELSE UNCHANGED <<history_file, command_history>>

\* lines 1227-1233, 1278-1283, 1338-1352, 1367-1374: the call returns r, saved
\* unless it is the command itself
EnhancedReturns(command, use_cache, r) ==
    /\ cache' = r.files
    /\ IF r.source # "identity" THEN SaveCommand(Entry(command, r.result, r.source))
       ELSE UNCHANGED <<history_file, command_history>>
    /\ call' = CallRecord(command, use_cache, r)

\* completer.py 159-169: the call returns r
ModelReturns(command, use_cache, r) ==
    /\ cache' = r.files
    /\ call' = CallRecord(command, use_cache, r)

\* EnhancedCompleter.get_completion (lines 1151-1374) with _save_command
\* (lines 46-63)
EnhancedCall(cmds, outs, outs2, flags) ==
    /\ cls = "EnhancedCompleter"
    /\ \E command \in cmds, use_cache \in flags, o1 \in outs :
         LET hist == UpdateHistory(history, command)
             commit == CommitIntent(command)
             second == IF commit /\ ~SmartMessageUsed(GetSmartCommitMessage(o1).text)
                       THEN outs2 ELSE {o1}
         IN  \E o2 \in second :
               /\ history' = hist
               /\ EnhancedReturns(command, use_cache,
                                  IF commit THEN EnhancedCommit(command, hist, o1, o2)
                                  ELSE EnhancedGeneral(command, use_cache, hist, o1))
    /\ timeout' = timeout
    /\ ncalls' = ncalls + 1
    /\ UNCHANGED <<cls, model, history_writable, now, corpus, git, tags, cwd_files>>
    /\ UNCHANGED others

\* ModelCompleter.get_completion (completer.py 77-169)
ModelCall(cmds, outs, flags) ==
    /\ cls = "ModelCompleter"
    /\ \E command \in cmds, use_cache \in flags, o \in outs :
         /\ history' = UpdateHistory(history, command)
         /\ ModelReturns(command, use_cache, ModelResolution(command, use_cache, o))
    /\ ncalls' = ncalls + 1
    /\ UNCHANGED <<cls, model, command_history, history_file, history_writable, timeout,
                   now, corpus, git, tags, cwd_files>>
    /\ UNCHANGED others

----------------------------------------------------------------------------
(* One request in every environment *)

InitResolve == Construct(Environments)

EnhancedResolve ==
    ncalls = 0 /\ EnhancedCall(Commands, Outcomes, FallbackOutcomes, {TRUE})

ModelResolve == ncalls = 0 /\ ModelCall(Commands, Outcomes, {TRUE})

NextResolve == EnhancedResolve \/ ModelResolve

SpecResolve == InitResolve /\ [][NextResolve]_vars

----------------------------------------------------------------------------
(* A session: several requests to one object, time passing in between *)

MaxCalls == 2

MaxTicks == 2

\* a tick is a bit more than half the life of a cache entry
TickStep == (CacheTTL \div 2) + 1

SessionCommands == {"docker run", "docker"}

SessionOutcomes ==
    {Answer("docker run -it nginx"), Answer("docker run -d redis"), Failure("refused")}

SessionEnvironments ==
    {Environment(Corpus1, NoRepo, Store(<<>>, TRUE)),
     Environment(NoCorpus, RepoPlain, Store(<<>>, TRUE)),
     Environment(Corpus1, NoRepo, Store(<<>>, FALSE))}

Init == Construct(SessionEnvironments)

EnhancedGetCompletion ==
    /\ ncalls < MaxCalls
    /\ EnhancedCall(SessionCommands, SessionOutcomes, SessionOutcomes, BOOLEAN)

ModelGetCompletion ==
    /\ ncalls < MaxCalls
    /\ ModelCall(SessionCommands, SessionOutcomes, BOOLEAN)

\* time passes
Tick ==
    /\ now + TickStep <= MaxTicks * TickStep
    /\ now' = now + TickStep
    /\ UNCHANGED <<cls, model, history, command_history, history_file, history_writable,
                   cache, timeout, corpus, git, tags, cwd_files, call, ncalls>>
    /\ UNCHANGED others

Next == EnhancedGetCompletion \/ ModelGetCompletion \/ Tick

Spec == Init /\ [][Next]_vars

----------------------------------------------------------------------------
(* Properties *)

\* a get_completion call has returned
Returned == call.op # "none"

Enhanced == call.op = "EnhancedCompleter"

\* the input is a commit command in the sense of lines 1202 and 1359
CommitLike(command) ==
    StartsWith(Strip(command), "git comm") \/ Contains(command, "git commit")

\* every request of the call failed or was answered with an empty body
AllRequestsFailed == \A i \in 1..Len(call.posts) : call.posts[i].outcome \in Failures

\* the corpus holds a record whose input is the command
HasExactMatch(command) ==
    /\ corpus.exists
    /\ \E i \in 1..Len(corpus.records) : CorpusExactMatch(corpus.records[i], command)

\* the output of the first record whose input is the command
ExactOutput(command) ==
    LET hits == {i \in 1..Len(corpus.records) :
                    CorpusExactMatch(corpus.records[i], command)}
    IN  corpus.records[CHOOSE i \in hits : \A j \in hits : i <= j].output

\* C1: every call returns a non-empty string, whatever the input (the empty
\* and the blank string included) and whatever is unavailable.
C1_Totality == Returned => call.result # ""

\* C2: for an input without corpus match, when every request to the backend
\* times out, is refused, is answered with an error status, with an empty
\* body or with text of which no line is taken, the call returns the input
\* unchanged.
C2_FailureIsIdentity ==
    (/\ Returned
     /\ GetFallbackCompletion(corpus, call.command) = ""
     /\ call.posts # <<>>
     /\ AllRequestsFailed \/ call.origin # "backend")
    => call.result = call.command

StoredLive ==
    /\ call.posts # <<>>
    /\ LET key == CacheKey(call.posts[1].model, call.posts[1].prompt)
       IN  /\ key \in DOMAIN cache
           /\ cache[key].form = "entry"
           /\ cache[key].expiry >= now

\* the step is a call that repeats the last one, both with the cache in use
RepeatsLastCall ==
    /\ ncalls' = ncalls + 1
    /\ Returned
    /\ call.use_cache /\ call'.use_cache
    /\ call'.command = call.command

\* C4: when a call is repeated in the same environment while the answer the
\* first call stored is within its life, the second call returns the same
\* string and makes no request to the backend.
C4_CacheIdempotence ==
    [][(RepeatsLastCall /\ StoredLive)
       => (call'.result = call.result /\ call'.posts = <<>>)]_vars

PlaceholderSubjects == {"message", "commit message", "update", "changes"}

\* the candidate is one line whose subject, after its type, is a placeholder
IsPlaceholderCandidate(text) ==
    /\ ~Contains(text, "\n")
    /\ Lower(Strip(SubCommitType(Strip(text)))) \in PlaceholderSubjects

\* C5: for a commit command without message, when every candidate of the
\* backend has a placeholder as its subject the call returns the command
\* unchanged, and no command returned carries a placeholder as its message.
C5_PlaceholderRejected ==
    /\ (/\ Returned /\ Enhanced
        /\ CommitIntent(call.command)
        /\ call.posts # <<>>
        /\ \A i \in 1..Len(call.posts) :
              /\ call.posts[i].outcome.kind = "ok"
              /\ IsPlaceholderCandidate(call.posts[i].outcome.text))
       => call.result = call.command
    /\ Returned => \A p \in PlaceholderSubjects : call.result # CommitCommand(p)

\* C6: for a commit command without message, when no request to the backend
\* gives a message (each fails or is answered with an empty body) the call
\* returns exactly the command.
C6_TotalFailureIsIdentity ==
    (Returned /\ Enhanced /\ CommitIntent(call.command) /\ AllRequestsFailed)
    => call.result = call.command

\* the lines of the answer that carry the Output: label
LabelledLines(text) ==
    LET lines == Split(Strip(text), "\n")
    IN  {i \in 1..Len(lines) : HasOutputLabel(Strip(lines[i]))}

\* the text after the label of the first labelled line
LabelledText(text) ==
    LET lines == Split(Strip(text), "\n")
        first == CHOOSE i \in LabelledLines(text) : \A j \in LabelledLines(text) : i <= j
    IN  Strip(SubOutputLabel(Strip(lines[first])))

\* C7: when the backend's answer has a line labelled Output: whose text
\* extends the input, the call returns the text after the label, in both
\* completers.
C7_LabelPreferred ==
    (/\ Returned
     /\ ~CommitLike(call.command)
     /\ call.posts # <<>>
     /\ call.posts[1].outcome.kind = "ok"
     /\ LabelledLines(call.posts[1].outcome.text) # {}
     /\ Len(LabelledText(call.posts[1].outcome.text)) > Len(call.command)
     /\ StartsWith(LabelledText(call.posts[1].outcome.text), call.command))
    => call.result = LabelledText(call.posts[1].outcome.text)

IsDigit(c) == c \in {"0", "1", "2", "3", "4", "5", "6", "7", "8", "9"}

\* the line starts with a number and a dot
RECURSIVE NumberedMarker(_)
NumberedMarker(line) ==
    /\ line # ""
    /\ IsDigit(Head(line))
    /\ StartsWith(Tail(line), ".") \/ NumberedMarker(Tail(line))

\* an explanatory sentence of the deny-list kind
Explanatory(line) ==
    \/ StartsWithAny(Strip(line), {"This will", "You can", "Note:"})
    \/ NumberedMarker(Strip(line))
    \/ EndsWith(Strip(line), ":")

AllExplanatory(text) ==
    /\ Strip(text) # ""
    /\ \A i \in 1..Len(Split(Strip(text), "\n")) : Explanatory(Split(Strip(text), "\n")[i])

\* C8: when every line of every answer of the backend is an explanatory
\* sentence, the result does not come from the backend: it is the corpus
\* output or the input.
C8_ExplanatoryRejected ==
    (/\ Returned
     /\ call.posts # <<>>
     /\ \A i \in 1..Len(call.posts) :
           /\ call.posts[i].outcome.kind = "ok"
           /\ AllExplanatory(call.posts[i].outcome.text))
    => call.source \in {"training_data", "identity"}

\* one clean line: no line break, no fence or backquote, no explanatory
\* opener, no label, no list marker, no pipe in its first 20 characters, no
\* final colon, and longer than the input
CleanLine(text, command) ==
    /\ text = Strip(text)
    /\ ~Contains(text, "\n")
    /\ ~Contains(text, Backtick)
    /\ ~StartsWithAny(text, RejectPrefixes)
    /\ ~StartsWithAny(Lower(text), {"output:", "input:"})
    /\ ~StartsWithAny(text, {"- ", "* "}) /\ ~NumberedMarker(text)
    /\ ~Contains(Prefix(text, 20), "|")
    /\ ~EndsWith(text, ":")
    /\ Len(text) > Len(command)

\* EnhancedCompleter asked the backend once for a command that is no commit
\* command and has no corpus match, and the answer is one clean line
CleanLineAnswered ==
    /\ Returned /\ Enhanced
    /\ ~CommitLike(call.command)
    /\ GetFallbackCompletion(corpus, call.command) = ""
    /\ call.posts # <<>>
    /\ call.posts[1].outcome.kind = "ok"
    /\ CleanLine(call.posts[1].outcome.text, call.command)

RelatedCommandLine(text, command) ==
    /\ \/ Contains(Lower(text), Lower(command))
       \/ StartsWith(text, IF Words(command) # <<>> THEN Words(command)[1] ELSE command)
    /\ IsAlpha(Char(text, 1)) \/ Char(text, 1) \in {".", "/"}
    /\ ~Contains(Lower(text), "commit message")
    /\ Lower(text) # "message"
    /\ ~ContainsAny(Lower(text), {"the logical", "next step", "you should",
                                  "complete command:"})

EnhancedCallReturns == ncalls' = ncalls + 1 /\ cls = "EnhancedCompleter"

\* exactly one entry is appended to the history file, carrying the command,
\* the result and the source of the call that returned
AppendsEntry ==
    /\ Len(history_file') = Len(history_file) + 1
    /\ SubSeq(history_file', 1, Len(history_file)) = history_file
    /\ history_file'[Len(history_file')] =
           Entry(call'.command, call'.result, call'.source)

----------------------------------------------------------------------------
(* The backend client and its cache manager, over several processes *)

MaxRequests == 2

\* client.py 21: the timeout of the probe
ProbeTimeout == 2

Seeds == {1, 2}

\* the (model, prompt) pairs asked for: two models, two prompts
ClientRequests == {<<"llama2", "ls">>, <<"zsh-assistant", "ls">>, <<"llama2", "git st">>}

ClientOutcomes ==
    {Answer(" ls -la\n"), Answer(""), Failure("status"),
     Failure("timeout"), Failure("refused"), Failure("malformed"),
     Failure("unexpected")}

\* what GET /api/tags can come to: status 200, another status, no answer in
\* time, no connection
ProbeOutcomes == {"ok", "status", "timeout", "refused"}

\* a probe that takes any answer of the server for a sign of life
IsServerAvailableOnAnyAnswer(o) ==
    [requests |-> <<[request |-> "GET /api/tags", timeout |-> ProbeTimeout]>>,
     result |-> o \in {"ok", "status"}, raised |-> FALSE]

\* client.py 18-24: is_server_available when GET /api/tags comes to o: the
\* requests issued, the value returned, and whether an exception left the call
IsServerAvailable(o) ==
    [requests |-> <<[request |-> "GET /api/tags", timeout |-> ProbeTimeout]>>,
     result |-> o = "ok", raised |-> FALSE]

\* the completer objects are not looked at here
InitClient ==
    /\ Construct({Environment(NoCorpus, NoGit, Store(<<>>, TRUE))})
    /\ cls = "ModelCompleter"

ClientFrame ==
    UNCHANGED <<cls, model, history, command_history, history_file, history_writable,
                timeout, corpus, git, tags, cwd_files, call, race, ext, run>>

\* one call of OllamaClient.generate_completion (client.py 26-83); had tells
\* whether the cache held a file for the key when the call was made
ClientGenerate ==
    /\ ncalls < MaxRequests
    /\ \E q \in ClientRequests, use_cache \in BOOLEAN, o \in ClientOutcomes :
         LET r == GenerateCompletion(cache, now, q[2], q[1], use_cache, o)
         IN  /\ cache' = r.files
             /\ reply' = [op |-> "generate_completion", prompt |-> q[2], model |-> q[1],
                          key |-> CacheKey(q[1], q[2]), use_cache |-> use_cache,
                          outcome |-> o, text |-> r.text, posted |-> r.posted,
                          hit |-> r.hit, raised |-> r.raised, time |-> now,
                          had |-> CacheKey(q[1], q[2]) \in DOMAIN cache]
    /\ ncalls' = ncalls + 1
    /\ UNCHANGED <<now, seed>>
    /\ ClientFrame

\* one call of OllamaClient.is_server_available (client.py 18-24)
ClientProbe ==
    /\ \E o \in ProbeOutcomes :
         reply' = [op |-> "is_server_available", outcome |-> o,
                   requests |-> IsServerAvailable(o).requests,
                   result |-> IsServerAvailable(o).result,
                   raised |-> IsServerAvailable(o).raised]
    /\ UNCHANGED <<cache, now, seed, ncalls>>
    /\ ClientFrame

\* the process ends and the tool is started again: the cache directory stays,
\* the hash seed is drawn anew
NewProcess ==
    /\ \E sd \in Seeds \ {seed} : seed' = sd
    /\ UNCHANGED <<cache, now, ncalls, reply>>
    /\ ClientFrame

NextClient == ClientGenerate \/ ClientProbe \/ NewProcess \/ Tick

SpecClient == InitClient /\ [][NextClient]_vars

\* the last call of the client was generate_completion
Generated == reply.op = "generate_completion"

\* C11: generate_completion returns the trimmed response text of an HTTP 200
\* answer after exactly one POST on a cache miss, returns the empty string on
\* every failure (timeout, connection error, other status, malformed or
\* unexpected body), and never raises.
C11_ClientResult ==
    Generated =>
        /\ ~reply.raised
        /\ reply.posted = ~reply.hit
        /\ (~reply.hit /\ reply.outcome.kind = "ok")
               => reply.text = Strip(reply.outcome.text)
        /\ (~reply.hit /\ reply.outcome.kind # "ok") => reply.text = ""

\* the step is a call that repeats, with the cache in use and less than the
\* life of an entry later, the call whose answer the backend gave and the
\* client stored
RepeatsStoredRequest ==
    /\ Generated /\ reply.use_cache /\ reply.posted /\ reply.text # ""
    /\ ncalls' = ncalls + 1
    /\ reply'.use_cache
    /\ reply'.model = reply.model /\ reply'.prompt = reply.prompt
    /\ now < reply.time + CacheTTL

\* the step is a call answered from the cache
AnsweredFromCache == ncalls' = ncalls + 1 /\ reply'.hit

\* C12: once generate_completion with the cache in use has returned a
\* non-empty answer of the backend, a call for the same model and prompt less
\* than an hour later, in the same or in a later process, returns that
\* answer without a request; and a call is answered from the cache only with
\* what was stored for its own model and prompt.
C12_CacheHit ==
    [][/\ RepeatsStoredRequest => (reply'.text = reply.text /\ ~reply'.posted)
       /\ AnsweredFromCache
            => \E k \in DOMAIN cache :
                   /\ k[1] = reply'.model /\ k[3] = reply'.prompt
                   /\ cache[k].value = reply'.text]_vars

\* the last call of the client was is_server_available
Probed == reply.op = "is_server_available"

\* C18: is_server_available issues one GET /api/tags with a timeout of 2
\* seconds and returns true exactly when the answer has status 200; for
\* another status, a timeout or a refused connection it returns false, and
\* it never raises.
C18_LivenessProbe ==
    Probed =>
        /\ reply.requests = <<[request |-> "GET /api/tags", timeout |-> 2]>>
        /\ reply.result = (reply.outcome = "ok")
        /\ ~reply.raised

\* the server answered the probe with a status other than 200
C18_Witness == Probed /\ reply.outcome = "status" /\ ~reply.result

\* the step is a call of generate_completion
GenerateStep == ncalls' = ncalls + 1 /\ reply'.op = "generate_completion"

\* the step is a call with the cache in use that the backend answered with
\* HTTP 200 and a non-empty response
StoringStep ==
    /\ GenerateStep
    /\ reply'.use_cache /\ reply'.posted
    /\ reply'.outcome.kind = "ok" /\ Strip(reply'.outcome.text) # ""

\* the step creates the entry of k or changes it
Written(k) == k \in DOMAIN cache' /\ (k \notin DOMAIN cache \/ cache'[k] # cache[k])

\* C20: a cache entry is created or modified only by generate_completion
\* with the cache in use and an HTTP 200 answer with a non-empty response;
\* every other call (cache not in use, timeout, connection error, other
\* status, empty response) leaves the cache unchanged, and a call with the
\* cache not in use never reads it.
C20_CacheWriteFrame ==
    [][/\ \A k \in DOMAIN cache' : Written(k) => (StoringStep /\ k = reply'.key)
       /\ ~StoringStep => cache' = cache
       /\ (GenerateStep /\ ~reply'.use_cache) => ~reply'.hit]_vars

\* C20, as the code has it: entries are created or modified only by such a
\* call; every other call adds and changes none, and removes none but the
\* expired entry of its own key, which the lookup of a call with the cache
\* in use deletes; a call with the cache not in use neither reads the cache
\* nor changes it.
C20_CacheWriteFrameButExpiry ==
    [][/\ \A k \in DOMAIN cache' : Written(k) => (StoringStep /\ k = reply'.key)
       /\ \A k \in DOMAIN cache \ DOMAIN cache' :
             /\ GenerateStep /\ reply'.use_cache /\ k = reply'.key
             /\ cache[k].expiry < now
       /\ (GenerateStep /\ ~reply'.use_cache) => (~reply'.hit /\ cache' = cache)]_vars

\* a call with the cache in use found the expired entry of its key, removed
\* it, and then ran into a timeout
C20_Witness ==
    /\ Generated /\ reply.use_cache /\ reply.had
    /\ reply.outcome.kind = "timeout"
    /\ reply.key \notin DOMAIN cache
    /\ now = reply.time

----------------------------------------------------------------------------
(* The cache manager alone: its files set, read, damaged and left to expire *)

MaxSets == 2

CacheKeys == {CacheKey("llama2", "ls"), CacheKey("llama2", "git st")}

CacheValues == {"ls -la", "git status"}

DamagedForms == {"garbage", "unreadable", "nonobject"}

\* one call of CacheManager.set (cache.py 39-54) with the ttl of client.py 68
CacheManagerSet ==
    /\ ncalls < MaxSets
    /\ \E key \in CacheKeys, value \in CacheValues :
         /\ cache' = CacheSet(cache, key, value, CacheTTL, now)
         /\ reply' = [op |-> "set", key |-> key, value |-> value, raised |-> FALSE,
                      time |-> now, found |-> TRUE, form |-> "entry",
                      expiry |-> now + CacheTTL]
    /\ ncalls' = ncalls + 1
    /\ UNCHANGED <<now, seed>>
    /\ ClientFrame

\* one call of CacheManager.get (cache.py 19-37); reply keeps what the file
\* was when the call was made
CacheManagerGet ==
    /\ \E key \in CacheKeys :
         LET got == CacheGet(cache, key, now)
         IN  /\ cache' = got.files
             /\ reply' = [op |-> "get", key |-> key, value |-> got.value,
                          raised |-> got.raised, time |-> now,
                          found |-> key \in DOMAIN cache,
                          form |-> IF key \in DOMAIN cache THEN cache[key].form ELSE "",
                          expiry |-> IF key \in DOMAIN cache THEN cache[key].expiry ELSE 0]
    /\ UNCHANGED <<now, seed, ncalls>>
    /\ ClientFrame

\* something other than the tool damages a cache file (a write cut short, a
\* disk fault, a change of permissions)
Damage ==
    /\ \E key \in DOMAIN cache, form \in DamagedForms :
         /\ cache[key].form = "entry"
         /\ cache' = [cache EXCEPT ![key].form = form]
    /\ UNCHANGED <<now, seed, ncalls, reply>>
    /\ ClientFrame

NextCache == CacheManagerSet \/ CacheManagerGet \/ Damage \/ Tick

SpecCache == InitClient /\ [][NextCache]_vars

\* the last call of the cache manager was get, and it found a file
GotFile == reply.op = "get" /\ reply.found

\* C13: when get finds a cache file that is unreadable or holds no valid
\* entry, it reports a miss, raises nothing and deletes the file, so that the
\* file no longer exists after the call.
C13_CorruptionRecovery ==
    (GotFile /\ reply.form \in DamagedForms)
        => /\ ~reply.raised
           /\ reply.value = ""
           /\ reply.key \notin DOMAIN cache

\* the step is a call of get
GetStep == reply'.op = "get" /\ reply' # reply

\* the step is a call of set for key k
SetStep(k) == ncalls' = ncalls + 1 /\ reply'.op = "set" /\ reply'.key = k

\* get has just read a sound entry whose expiry lay before the time of the call
GotExpired == GotFile /\ reply.form = "entry" /\ reply.expiry < reply.time

\* C19: get never returns a value whose expiry is earlier than the current
\* time; on reading such an entry it returns a miss and deletes the entry,
\* and the key stays a miss for every later get until the next set.
C19_ExpiryOnRead ==
    [][/\ GetStep =>
            /\ reply'.value # "" => (reply'.found /\ reply'.expiry >= reply'.time)
            /\ GotExpired' => /\ reply'.value = "" /\ ~reply'.raised
                              /\ reply'.key \notin DOMAIN cache'
       /\ \A k \in CacheKeys :
            (k \notin DOMAIN cache /\ ~SetStep(k))
                => /\ k \notin DOMAIN cache'
                   /\ (GetStep /\ reply'.key = k) => reply'.value = ""]_vars

\* an entry was set, outlived its hour and was then read: a miss, and the
\* file is gone
C19_Witness ==
    /\ GotExpired
    /\ reply.value = ""
    /\ reply.key \notin DOMAIN cache
    /\ now = reply.time

----------------------------------------------------------------------------
(* The history of commands: the file and the entries kept in memory *)

MaxSaves == 3

\* the i-th record of a history file
Numbered(i) == Entry("git st", ToString(i), "ai")

\* a file of n records, the b-th line of which, if there is one, does not parse
HistoryFile(n, b) == [i \in 1..n |-> IF i = b THEN Unparsable ELSE Numbered(i)]

\* command_history.jsonl before the object is constructed: empty, short,
\* just below, at and above the limit of the memory, sound or with a line
\* that does not parse
HistoryFiles ==
    {HistoryFile(n, 0) : n \in {0, 2, HistoryLimit - 1, HistoryLimit, HistoryLimit + 1}}
    \cup {HistoryFile(3, 2), HistoryFile(HistoryLimit + 2, HistoryLimit + 1)}

SavedEntries == {Entry("ls", "ls -la", "ai"), Entry("git st", "git status", "training_data")}

\* EnhancedCompleter.__init__ over one of the history files
InitHistory ==
    /\ Construct({Environment(NoCorpus, NoGit, Store(f, w)) :
                     f \in HistoryFiles, w \in BOOLEAN})
    /\ cls = "EnhancedCompleter"

HistoryFrame ==
    UNCHANGED <<cls, model, history, history_writable, cache, timeout, now, corpus,
                git, tags, cwd_files, call, seed, reply, race, ext, run>>

\* one call of _save_command (lines 46-63)
HistorySave ==
    /\ ncalls < MaxSaves
    /\ \E entry \in SavedEntries : SaveCommand(entry)
    /\ ncalls' = ncalls + 1
    /\ HistoryFrame

\* one more call of _load_history (lines 33-44)
HistoryLoad ==
    /\ command_history' = LoadHistory(history_file)
    /\ UNCHANGED <<history_file, ncalls>>
    /\ HistoryFrame

NextHistory == HistorySave \/ HistoryLoad

SpecHistory == InitHistory /\ [][NextHistory]_vars

\* the records of a file, in their order
Records(file) == SelectSeq(file, Parses)

\* C15: after any sequence of loads and saves in one process the memory
\* holds at most 100 entries, which are the most recent records in their
\* original order, and the file is only ever appended to.
C15_HistoryWindow ==
    /\ [](/\ Len(command_history) <= 100
          /\ command_history = LastN(Records(history_file), 100))
    /\ [][/\ Len(history_file') >= Len(history_file)
          /\ SubSeq(history_file', 1, Len(history_file)) = history_file]_vars

----------------------------------------------------------------------------
(* The external calls of a request: the backend and the git subprocesses *)

MaxRuns == 2

\* what an external tool can do with a call: answer, fail (the program is
\* missing, the exit status is not zero, the connection is refused), or
\* never answer
ToolOutcomes == {"ok", "error", "silent"}

\* subprocess.run and requests: a call that is never answered ends with
\* TimeoutExpired (requests: Timeout) when it was given a timeout, and does
\* not end without one
ResultOf(c, outcome) ==
    IF outcome = "silent" THEN (IF c.timeout = 0 THEN "blocked" ELSE "timeout")
    ELSE outcome

\* a _get_git_info that stages every file before it asks for the status
GitInfoCallAtStaging(step) ==
    CASE step = "revparse" -> Call("git", "rev-parse --is-inside-work-tree", 0, TRUE, 59)
      [] step = "branch"   -> Call("git", "branch --show-current", 0, FALSE, 63)
      [] step = "status"   -> Call("git", "add -A", 0, FALSE, 68)

\* completer.py 55-75: the three calls of _get_git_info
GitInfoCallAt(step) ==
    CASE step = "revparse" -> Call("git", "rev-parse --is-inside-work-tree", 0, TRUE, 59)
      [] step = "branch"   -> Call("git", "branch --show-current", 0, FALSE, 63)
      [] step = "status"   -> Call("git", "status --short", 0, FALSE, 68)

\* client.py 88 and 55-59: the requests of get_available_models and of
\* generate_completion, the latter with the timeout the caller has set
ClientCallAt(step, t) ==
    CASE step = "models" -> Call("http", "GET /api/tags", 5, FALSE, 88)
      [] step = "post"   -> Call("http", "POST /api/generate", t, FALSE, 55)

\* the external call made at each place of get_completion (lines 1151-1374)
\* and get_smart_commit_message (lines 1098-1149): git_ lines 1176-1198, a_
\* _analyze_git_changes (604-755), g_ _generate_commit_message (757-890) with
\* _get_git_diff_context (395-407), f_ the fallback of a commit completion
\* (1239-1289), p_ the general completion (1296-1309), q_ line 1339
CallAt(n) ==
    CASE n = "models"            -> ClientCallAt("models", 0)
      [] n = "git_revparse"      -> Call("git", "rev-parse --is-inside-work-tree", 2, TRUE, 1179)
      [] n = "git_unstaged"      -> Call("git", "diff --name-only", 2, FALSE, 1183)
      [] n = "git_staged"        -> Call("git", "diff --cached --name-only", 2, FALSE, 1188)
      [] n = "a_revparse"        -> Call("git", "rev-parse --is-inside-work-tree", 2, TRUE, 618)
      [] n = "a_status"          -> Call("git", "status --short", 2, FALSE, 622)
      [] n = "a_unstaged"        -> Call("git", "diff --name-only", 2, FALSE, 627)
      [] n = "a_staged"          -> Call("git", "diff --cached --name-only", 2, FALSE, 632)
      [] n = "a_staged_status"   -> Call("git", "diff --cached --name-status", 2, FALSE, 644)
      [] n = "a_unstaged_status" -> Call("git", "diff --name-status", 2, FALSE, 662)
      [] n = "a_stat"            -> Call("git", "diff --cached --stat", 3, FALSE, 698)
      [] n = "a_stat_unstaged"   -> Call("git", "diff --stat", 3, FALSE, 704)
      [] n = "g_cached"          -> Call("git", "diff --cached", 5, FALSE, 399)
      [] n = "g_unstaged"        -> Call("git", "diff", 5, FALSE, 405)
      [] n = "g_raw"             -> Call("git", "diff --cached -U3", 3, FALSE, 816)
      [] n = "g_models"          -> ClientCallAt("models", 0)
      [] n = "g_post"            -> ClientCallAt("post", CommitTimeout)
      [] n = "f_revparse"        -> GitInfoCallAt("revparse")
      [] n = "f_branch"          -> GitInfoCallAt("branch")
      [] n = "f_status"          -> GitInfoCallAt("status")
      [] n = "f_models"          -> ClientCallAt("models", 0)
      [] n = "f_post"            -> ClientCallAt("post", FallbackTimeout)
      [] n = "p_revparse"        -> GitInfoCallAt("revparse")
      [] n = "p_branch"          -> GitInfoCallAt("branch")
      [] n = "p_status"          -> GitInfoCallAt("status")
      [] n = "p_post"            -> ClientCallAt("post", InteractiveTimeout)
      [] n = "q_revparse"        -> GitInfoCallAt("revparse")
      [] n = "q_branch"          -> GitInfoCallAt("branch")
      [] n = "q_status"          -> GitInfoCallAt("status")

\* where a request goes when no commit message came of it: get_completion
\* goes on to its fallback (line 1238), get_smart_commit_message returns None
NoMessage(op) == IF op = "get_completion" THEN {"f_revparse"} ELSE {"done"}

\* lines 1202 and 1296: after the calls for the bare "git", a commit command
\* without a message goes to the smart commit, any other to the completion
Dispatch(command) == IF CommitIntent(command) THEN {"a_revparse"} ELSE {"p_revparse"}

\* the places a request can go to after the call at n ended with result r
\* ("ok", "error" or "timeout"); where the way depends on what the tool
\* printed, every way is given
After(n, r, op, command) ==
    CASE n = "models" ->
             IF Strip(command) = "git" THEN {"git_revparse"} ELSE Dispatch(command)
      \* lines 1176-1198: any exception ends the block
      [] n = "git_revparse" -> IF r = "ok" THEN {"git_unstaged"} ELSE Dispatch(command)
      [] n = "git_unstaged" -> IF r = "ok" THEN {"git_staged"} ELSE Dispatch(command)
      [] n = "git_staged"   -> Dispatch(command)
      \* lines 616-755: line 752 catches an error and returns the changes found
      \* so far; TimeoutExpired leaves through line 1145
      [] n = "a_revparse" -> IF r = "ok" THEN {"a_status"} ELSE NoMessage(op)
      [] n = "a_status"   -> IF r = "ok" THEN {"a_unstaged"} ELSE NoMessage(op)
      [] n = "a_unstaged" -> IF r = "ok" THEN {"a_staged"} ELSE NoMessage(op)
      [] n = "a_staged"   ->
             IF r = "ok"
             THEN {"a_staged_status", "a_unstaged_status", "a_stat"} \cup NoMessage(op)
             ELSE NoMessage(op)
      [] n \in {"a_staged_status", "a_unstaged_status"} ->
             IF r = "ok" THEN {"a_stat"} ELSE NoMessage(op)
      [] n = "a_stat" ->
             IF r = "ok" THEN {"a_stat_unstaged", "g_cached"} \cup NoMessage(op)
             ELSE IF r = "error" THEN {"g_cached"} \cup NoMessage(op)
             ELSE NoMessage(op)
      [] n = "a_stat_unstaged" ->
             IF r = "timeout" THEN NoMessage(op) ELSE {"g_cached"} \cup NoMessage(op)
      \* lines 395-407 and 600: every exception gives an empty context
      [] n = "g_cached" ->
             IF r = "ok" THEN {"g_unstaged", "g_raw", "g_models"} ELSE {"g_raw", "g_models"}
      [] n = "g_unstaged" -> {"g_raw", "g_models"}
      \* lines 814-832
      [] n = "g_raw"    -> {"g_models"}
      [] n = "g_models" -> {"g_post"}
      \* the message is returned, or rejected (lines 1117-1139, 1223-1235)
      [] n = "g_post"   -> {"done"} \cup NoMessage(op)
      \* _get_git_info: an error ends it with no information
      [] n = "f_revparse" -> IF r = "ok" THEN {"f_branch"} ELSE {"f_models"}
      [] n = "f_branch"   -> IF r = "ok" THEN {"f_status"} ELSE {"f_models"}
      [] n = "f_status"   -> {"f_models"}
      [] n = "f_models"   -> {"f_post"}
      [] n = "f_post"     -> {"done"}
      [] n = "p_revparse" -> IF r = "ok" THEN {"p_branch"} ELSE {"p_post"}
      [] n = "p_branch"   -> IF r = "ok" THEN {"p_status"} ELSE {"p_post"}
      [] n = "p_status"   -> {"p_post"}
      \* line 1338: a line of the answer is taken, and the branch is asked for
      [] n = "p_post"     -> {"done", "q_revparse"}
      [] n = "q_revparse" -> IF r = "ok" THEN {"q_branch"} ELSE {"done"}
      [] n = "q_branch"   -> IF r = "ok" THEN {"q_status"} ELSE {"done"}
      [] n = "q_status"   -> {"done"}

\* what git does to the repository: rev-parse, status, branch --show-current
\* and diff leave it as it is; add stages, commit empties the staged set
GitRun(g, c) ==
    IF c.tool # "git" \/ g.mode # "repo" THEN g
    ELSE IF StartsWith(c.request, "commit") THEN [g EXCEPT !.staged = <<>>]
    ELSE IF StartsWith(c.request, "add") THEN [g EXCEPT !.staged = Append(@, "new.txt")]
    ELSE g

CallCommands == {"git", "git commit", "git commit -m", "ls"}

InitCalls ==
    /\ Construct({Environment(NoCorpus, g, Store(<<>>, TRUE)) : g \in Repos})
    /\ cls = "EnhancedCompleter"

CallsFrame ==
    UNCHANGED <<cls, model, history, command_history, history_file, history_writable,
                cache, timeout, now, corpus, tags, cwd_files, call, seed, reply, race,
                run>>

\* get_completion (line 1151) or get_smart_commit_message (line 1098) is called
StartRequest ==
    /\ ext.at \in {"idle", "done"}
    /\ ncalls < MaxRuns
    /\ \/ \E command \in CallCommands :
             ext' = [NoExt EXCEPT !.op = "get_completion", !.command = command,
                                  !.at = "models"]
       \/ ext' = [NoExt EXCEPT !.op = "get_smart_commit_message", !.at = "a_revparse"]
    /\ ncalls' = ncalls + 1
    /\ UNCHANGED git
    /\ CallsFrame

\* the request makes its next external call, and the tool answers it, fails
\* or stays silent
IssueCall ==
    /\ ext.at \notin {"idle", "done", "blocked"}
    /\ \E outcome \in ToolOutcomes :
         LET c == CallAt(ext.at)
             r == ResultOf(c, outcome)
         IN  /\ git' = GitRun(git, c)
             /\ \E next \in (IF r = "blocked" THEN {"blocked"}
                             ELSE After(ext.at, r, ext.op, ext.command)) :
                  ext' = [ext EXCEPT
                            !.at = next,
                            !.last = [tool |-> c.tool, request |-> c.request,
                                      timeout |-> c.timeout, check |-> c.check,
                                      line |-> c.line, result |-> r],
                            !.returned = IF next # "done" THEN ""
                                         ELSE IF ext.at = "g_post" THEN "message"
                                         ELSE "completion"]
    /\ UNCHANGED ncalls
    /\ CallsFrame

NextCalls == StartRequest \/ IssueCall

SpecCalls == InitCalls /\ [][NextCalls]_vars

\* an external call has been issued
Issued == ext.last.tool # "none"

\* C14: every external call made during get_completion and
\* get_smart_commit_message (model listing, completion, every git
\* subprocess) carries an explicit timeout, so that the request ends even
\* when the backend or git never answers.
C14_BoundedCalls ==
    /\ Issued => ext.last.timeout > 0
    /\ ext.at # "blocked"

\* the git requests that only read: rev-parse, status, branch --show-current
\* and the forms of diff
ReadOnlyRequest(request) ==
    \/ StartsWithAny(request, {"rev-parse ", "status ", "diff "})
    \/ request \in {"diff", "status", "branch --show-current"}

\* C16: no operation of the resolver invokes a mutating git operation: the
\* staged set, the working tree and the history of commits are unchanged by
\* every request, and a proposed commit is returned as text, never run.
C16_GitReadOnly ==
    [][/\ git' = git
       /\ (ext'.last.tool = "git") => ReadOnlyRequest(ext'.last.request)]_vars

\* in a repository with a staged file a commit message was proposed and the
\* request is over: the file is still staged
C16_Witness ==
    /\ ext.op = "get_completion" /\ CommitIntent(ext.command)
    /\ ext.at = "done" /\ ext.returned = "message"
    /\ git.mode = "repo" /\ git.staged # <<>>

----------------------------------------------------------------------------
(* Two processes that set one cache key while a third one gets it *)

\* the values the writers store: answers of different length
RaceValues == {"a", "bbb"}

\* cache.py 43-51: json.dump of the entry, longer for a longer value
Serialized(value) == "{" \o value \o "}"

\* cache.py 28: json.load reads one object, and rejects an empty file, a
\* cut-off object and any text after the object
ParseEntry(content) ==
    IF /\ Len(content) >= 2
       /\ Head(content) = "{" /\ Char(content, Len(content)) = "}"
       /\ \A i \in 2..(Len(content) - 1) : Char(content, i) \notin {"{", "}"}
    THEN [ok |-> TRUE, value |-> SubSeq(content, 2, Len(content) - 1)]
    ELSE [ok |-> FALSE, value |-> ""]

\* write(2) of data at offset 0 of a file that holds content: what lies
\* beyond the data stays
WriteAtStart(content, data) ==
    IF Len(content) <= Len(data) THEN data
    ELSE data \o SubSeq(content, Len(data) + 1, Len(content))

InitRace == InitClient

RaceFrame ==
    UNCHANGED <<cls, model, history, command_history, history_file, history_writable,
                cache, timeout, now, corpus, git, tags, cwd_files, call, ncalls, seed,
                reply, ext, run>>

\* cache.py 50: open(cache_path, 'w') creates the file or cuts it to nothing
WriterOpen ==
    /\ \E p \in Writers, value \in RaceValues :
         /\ race.pc[p] = "start"
         /\ race' = [race EXCEPT !.pc[p] = "opened", !.value[p] = value,
                                 !.file = "", !.exists = TRUE]
    /\ RaceFrame

\* cache.py 51-52: json.dump fills the buffer of the file object, and leaving
\* the with block writes it, in one write for an entry smaller than the
\* buffer, at the offset of this writer, which is 0
WriterClose ==
    /\ \E p \in Writers :
         /\ race.pc[p] = "opened"
         /\ race' = [race EXCEPT !.pc[p] = "closed",
                                 !.file = WriteAtStart(@, Serialized(race.value[p]))]
    /\ RaceFrame

\* cache.py 23-24: os.path.exists
ReaderExists ==
    /\ ~race.checked
    /\ race' = IF race.exists THEN [race EXCEPT !.checked = TRUE]
               ELSE [race EXCEPT !.got = "miss"]
    /\ RaceFrame

\* cache.py 26-37: the file is read and parsed; what does not parse is a miss
\* (JSONDecodeError), an entry gives its value (the writers' entries are not
\* expired)
ReaderLoad ==
    /\ race.checked
    /\ race' = [race EXCEPT !.checked = FALSE,
                            !.got = IF ParseEntry(race.file).ok
                                    THEN ParseEntry(race.file).value ELSE "miss"]
    /\ RaceFrame

NextRace == WriterOpen \/ WriterClose \/ ReaderExists \/ ReaderLoad

SpecRace == InitRace /\ [][NextRace]_vars

\* every write has finished
AllWritten == \A p \in Writers : race.pc[p] = "closed"

\* C17: when two processes write and read one cache key concurrently, every
\* get returns a miss or one of the values written, in full, and once all
\* writes have finished the entry holds the complete value of exactly one
\* writer.
C17_ConcurrentAccess ==
    /\ race.got \in {"none", "miss"} \cup {race.value[p] : p \in Writers}
    /\ AllWritten => /\ race.exists
                     /\ race.file \in {Serialized(race.value[p]) : p \in Writers}

----------------------------------------------------------------------------
(* The client's timeout, set for one request and put back *)

\* the timeouts a configuration gives the client (completer.py 15)
ConfiguredTimeouts == {DefaultTimeout, InteractiveTimeout, 60}

\* an activation: the operation, where it stands, the timeout it found when
\* it was entered, the timeout it has saved (original_timeout; 0 before it
\* saves one), and how the block under the override was left
Activation(fn, intent, entry) ==
    [fn |-> fn, intent |-> intent, pc |-> "enter", entry |-> entry, original |-> 0,
     pending |-> "none"]

Top == run.stack[Len(run.stack)]

\* the innermost activation goes on as f
Goes(f) == run' = [run EXCEPT !.stack[Len(run.stack)] = f]

\* the innermost activation calls fn
Calls(f, fn) == run' = [run EXCEPT !.stack = Append([@ EXCEPT ![Len(@)] = f],
                                                    Activation(fn, "none", timeout))]

\* the innermost activation returns; how tells the way of the outermost one
Leaves(how) ==
    run' = [stack |-> SubSeq(run.stack, 1, Len(run.stack) - 1),
            last |-> IF Len(run.stack) = 1
                     THEN [fn |-> Top.fn, how |-> how, entry |-> Top.entry]
                     ELSE run.last]

\* lines 875, 1242, 1299: the timeout each operation sets for its request
OverrideOf(f) ==
    IF f.fn = "_generate_commit_message" THEN CommitTimeout
    ELSE IF f.pc = "fb_override" THEN FallbackTimeout
    ELSE InteractiveTimeout

\* a timeout put back only when the block was left in the ordinary way
RestoredUnlessLeftEarly(f) == IF f.pending = "none" THEN f.original ELSE timeout

\* lines 889-890, 1286-1287, 1308-1309: the finally clause puts back what was
\* saved, however the block was left
Restored(f) == f.original

InitTimeout ==
    /\ Construct({Environment(NoCorpus, NoGit, Store(<<>>, TRUE)) @@ ("timeout" :> t) :
                     t \in ConfiguredTimeouts})
    /\ cls = "EnhancedCompleter"

TimeoutFrame ==
    UNCHANGED <<cls, model, history, command_history, history_file, history_writable,
                cache, now, corpus, git, tags, cwd_files, call, seed, reply, race, ext>>

\* get_completion (line 1151), get_smart_commit_message (line 1098) or
\* _generate_commit_message (line 757) is called
EnterOperation ==
    /\ run.stack = <<>>
    /\ ncalls < MaxRuns
    /\ \E fn \in {"get_completion", "get_smart_commit_message", "_generate_commit_message"},
          intent \in {"commit", "general", "none"} :
         /\ (fn = "get_completion") = (intent # "none")
         /\ run' = [run EXCEPT !.stack = <<Activation(fn, intent, timeout)>>]
    /\ ncalls' = ncalls + 1
    /\ UNCHANGED timeout
    /\ TimeoutFrame

\* the steps that leave the timeout alone: the way through get_completion
\* (lines 1202-1238, 1296), get_smart_commit_message (lines 1101-1149) and
\* the start of _generate_commit_message (lines 759-760)
Proceed ==
    /\ run.stack # <<>>
    /\ \/ /\ Top.fn = "get_completion" /\ Top.pc = "enter"
          /\ IF Top.intent = "commit"
             THEN Calls([Top EXCEPT !.pc = "smart_done"], "get_smart_commit_message")
             ELSE Goes([Top EXCEPT !.pc = "gen_override"])
       \/ /\ Top.fn = "get_completion" /\ Top.pc = "smart_done"
          /\ Leaves("success") \/ Goes([Top EXCEPT !.pc = "fb_override"])
       \/ /\ Top.fn = "get_smart_commit_message" /\ Top.pc = "enter"
          /\ \/ Leaves("rejected")
             \/ Calls([Top EXCEPT !.pc = "message_done"], "_generate_commit_message")
       \/ /\ Top.fn = "get_smart_commit_message" /\ Top.pc = "message_done"
          /\ Leaves("success") \/ Leaves("rejected")
       \/ /\ Top.fn = "_generate_commit_message" /\ Top.pc = "enter"
          /\ Leaves("early") \/ Goes([Top EXCEPT !.pc = "override"])
    /\ UNCHANGED <<timeout, ncalls>>
    /\ TimeoutFrame

\* lines 874-875, 1241-1242, 1298-1299: the timeout is saved and set
Override ==
    /\ run.stack # <<>>
    /\ Top.pc \in {"override", "fb_override", "gen_override"}
    /\ timeout' = OverrideOf(Top)
    /\ Goes([Top EXCEPT !.pc = "try", !.original = timeout])
    /\ UNCHANGED ncalls
    /\ TimeoutFrame

\* lines 877-888, 1243-1285, 1301-1307: the block under the override ends by
\* running through, by the return of line 1283, or by an exception of the
\* backend call
TryBlock ==
    /\ run.stack # <<>>
    /\ Top.pc = "try"
    /\ \E pending \in {"none", "return", "exception"} :
         /\ pending = "return" => (Top.fn = "get_completion" /\ Top.intent = "commit")
         /\ Goes([Top EXCEPT !.pc = "finally", !.pending = pending])
    /\ UNCHANGED <<timeout, ncalls>>
    /\ TimeoutFrame

\* lines 889-890, 1286-1287, 1308-1309: the finally clause, after which the
\* operation returns: the exception is caught at lines 1091, 1288 or 1305
Finally ==
    /\ run.stack # <<>>
    /\ Top.pc = "finally"
    /\ timeout' = Restored(Top)
    /\ \/ Top.pending = "none" /\ (Leaves("success") \/ Leaves("rejected"))
       \/ Top.pending = "return" /\ Leaves("early")
       \/ Top.pending = "exception" /\ Leaves("exception")
    /\ UNCHANGED ncalls
    /\ TimeoutFrame

NextTimeout == EnterOperation \/ Proceed \/ Override \/ TryBlock \/ Finally

SpecTimeout == InitTimeout /\ [][NextTimeout]_vars

\* the step is a return of the innermost operation
Returns == Len(run'.stack) < Len(run.stack)

\* C21: after every return from get_completion, get_smart_commit_message or
\* _generate_commit_message (success, rejection, early return from inside
\* the override, exception in the backend call) the client's timeout is the
\* value it had before the call.
C21_ScopedTimeout == [][Returns => timeout' = Top.entry]_vars

\* get_completion has returned after an exception under an override that
\* had changed the timeout, and the timeout is what it was
C21_Witness ==
    /\ run.stack = <<>>
    /\ run.last.fn = "get_completion" /\ run.last.how = "exception"
    /\ timeout = run.last.entry
    /\ timeout \notin {FallbackTimeout, InteractiveTimeout}

----------------------------------------------------------------------------
(* The corpus lookup over corpora in every order of their records *)

MaxRecords == 3

\* records whose inputs are equal to, longer than and unrelated to the
\* commands asked for
LookupRecords ==
    {Record("docker run", "docker run -it --name container image:tag"),
     Record("docker run -d", "Output: docker run -d nginx"),
     Record("Docker", "docker ps"),
     Record("git st", "git status")}

LookupCommands == {"docker run", "docker", "git st", "ls"}

\* the corpora of at most MaxRecords of these records, in every order
LookupCorpora ==
    {[exists |-> TRUE, records |-> recs] :
        recs \in {r \in UNION {[1..n -> LookupRecords] : n \in 0..MaxRecords} :
                     \A i, j \in 1..Len(r) : i # j => r[i] # r[j]}}

InitLookup ==
    /\ Construct({Environment(c, NoGit, Store(<<>>, TRUE)) : c \in LookupCorpora})
    /\ cls = "ModelCompleter"

LookupFrame ==
    UNCHANGED <<cls, model, history, command_history, history_file, history_writable,
                cache, timeout, now, corpus, git, tags, cwd_files, call, ncalls, seed,
                race, ext, run>>

\* one call of _get_fallback_completion (completer.py 229-252)
FallbackLookup ==
    /\ \E command \in LookupCommands :
         reply' = [op |-> "_get_fallback_completion", command |-> command,
                   result |-> GetFallbackCompletion(corpus, command)]
    /\ LookupFrame

NextLookup == FallbackLookup

SpecLookup == InitLookup /\ [][NextLookup]_vars

\* the records of the corpus whose input is the command, whatever the case
ExactRecords(command) ==
    {i \in 1..Len(corpus.records) : Lower(corpus.records[i].input) = Lower(command)}

\* C22: for every corpus, in any order of its records, that holds a record
\* whose input equals the command case-insensitively,
\* _get_fallback_completion returns the output of that record, even when a
\* record that matches only by prefix or substring comes earlier in the file.
C22_ExactMatchFirst ==
    (reply.op = "_get_fallback_completion" /\ ExactRecords(reply.command) # {})
        => \E i \in ExactRecords(reply.command) :
               reply.result = CorpusOutput(corpus.records[i])

----------------------------------------------------------------------------
(* The project type of working directories with several marker files *)

MaxFiles == 3

DirectoryFiles ==
    {"package.json", "requirements.txt", "setup.py", "pom.xml", "Cargo.toml", "go.mod",
     "README.md"}

\* the working directories of at most MaxFiles of these files, in every order
\* of their modification times
Directories ==
    {d \in UNION {[1..n -> DirectoryFiles] : n \in 0..MaxFiles} :
        \A i, j \in 1..Len(d) : i # j => d[i] # d[j]}

InitDetect ==
    /\ Construct({[Environment(NoCorpus, NoGit, Store(<<>>, TRUE)) EXCEPT !.cwd_files = d] :
                     d \in Directories})
    /\ cls = "EnhancedCompleter"

DetectFrame ==
    UNCHANGED <<cls, model, history, command_history, history_file, history_writable,
                cache, timeout, now, corpus, git, tags, cwd_files, call, ncalls, seed,
                race, ext, run>>

\* one call of _detect_project_context (lines 65-132)
Detect ==
    /\ reply' = [op |-> "_detect_project_context",
                 result |-> DetectProjectContext(cwd_files)]
    /\ DetectFrame

NextDetect == Detect

SpecDetect == InitDetect /\ [][NextDetect]_vars

\* the markers in the order of their priority, with the type each stands for
MarkerPriority ==
    <<[markers |-> {"package.json"}, type |-> "node"],
      [markers |-> {"requirements.txt", "pyproject.toml", "setup.py"}, type |-> "python"],
      [markers |-> {"pom.xml", "build.gradle"}, type |-> "java"],
      [markers |-> {"Cargo.toml"}, type |-> "rust"],
      [markers |-> {"go.mod"}, type |-> "go"]>>

\* the ranks of the markers that the working directory holds
RanksPresent ==
    {k \in 1..Len(MarkerPriority) :
        \E i \in 1..Len(cwd_files) : cwd_files[i] \in MarkerPriority[k].markers}

\* C23: when the working directory holds markers of several project types,
\* _detect_project_context reports the type of the marker of highest
\* priority, in the order package manifest (node), interpreter manifest
\* (python), build manifest (java), language lockfile (rust, go); a marker of
\* lower priority never overrides one of higher priority.
C23_ProjectTypePriority ==
    (reply.op = "_detect_project_context" /\ RanksPresent # {})
        => reply.result.project_type =
               MarkerPriority[CHOOSE k \in RanksPresent : \A j \in RanksPresent : k <= j].type

----------------------------------------------------------------------------
(* The context operations when git fails *)

\* a git that never answers a call
NoAnswer == Repo("silent", <<>>, "")

ContextOps == {"_get_git_info", "_analyze_git_changes", "_detect_project_context"}

ContextDirectories == {<<>>, <<"README.md">>, <<"setup.py", "README.md">>}

\* subprocess.run in the state g of git: outside a repository git exits with
\* a status that is not zero, which raises CalledProcessError under check=True
\* only; a missing program raises FileNotFoundError; a git that never answers
\* ends the call with TimeoutExpired when it has a timeout, and not at all
\* without one
ToolResult(g, c) ==
    CASE g.mode = "repo"    -> "ok"
      [] g.mode = "norepo"  -> IF c.check THEN "error" ELSE "ok"
      [] g.mode = "missing" -> "error"
      [] g.mode = "silent"  -> ResultOf(c, "silent")

\* the first external call of a context operation; _detect_project_context
\* (lines 65-132) makes none
ContextStart(op) ==
    CASE op = "_get_git_info"           -> "q_revparse"
      [] op = "_analyze_git_changes"    -> "a_revparse"
      [] op = "_detect_project_context" -> "returned"

\* where a context operation goes after the call at n ended with result r:
\* completer.py 73 and enhanced_completer.py 752 catch CalledProcessError and
\* FileNotFoundError and return what was initialized; TimeoutExpired is in
\* neither tuple and leaves the operation
ContextAfter(n, r, g) ==
    IF r = "blocked" THEN "blocked"
    ELSE IF r = "timeout" THEN "raised"
    ELSE IF r = "error" THEN "returned"
    ELSE CASE n = "q_revparse" -> "q_branch"
           [] n = "q_branch"   -> "q_status"
           [] n = "q_status"   -> "returned"
           [] n = "a_revparse" -> "a_status"
           [] n = "a_status"   -> "a_unstaged"
           [] n = "a_unstaged" -> "a_staged"
           \* lines 637-638 and 641-678
           [] n = "a_staged"   -> IF g.mode # "repo" \/ (g.staged = <<>> /\ g.unstaged = <<>>)
                                  THEN "returned"
                                  ELSE IF g.staged # <<>> THEN "a_staged_status"
                                  ELSE "a_unstaged_status"
           [] n \in {"a_staged_status", "a_unstaged_status"} -> "a_stat"
           \* lines 698-706
           [] n = "a_stat"     -> IF g.staged # <<>> THEN "returned" ELSE "a_stat_unstaged"
           [] n = "a_stat_unstaged" -> "returned"

\* what a context operation returns in the state g of git and the directory
\* files when no exception leaves it
ContextResult(op, g, files) ==
    CASE op = "_get_git_info" ->
             [git_info |-> IF g.mode = "repo" THEN GetGitInfo(g) ELSE ""]
      [] op = "_analyze_git_changes" ->
             [files_changed |-> IF g.mode = "repo" THEN AnalyzeGitChanges(g).files_changed
                                ELSE <<>>]
      [] op = "_detect_project_context" ->
             [project_type |-> DetectProjectContext(files).project_type]

InitContext ==
    /\ Construct({[Environment(NoCorpus, g, Store(<<>>, TRUE)) EXCEPT !.cwd_files = d] :
                     g \in Repos \cup {NoAnswer}, d \in ContextDirectories})
    /\ cls = "EnhancedCompleter"

ContextFrame ==
    UNCHANGED <<cls, model, history, command_history, history_file, history_writable,
                cache, timeout, now, corpus, git, tags, cwd_files, call, seed, race,
                run>>

\* one of the context operations is called
CallContext ==
    /\ ext.at \in {"idle", "returned", "raised"}
    /\ ncalls < MaxRuns
    /\ \E op \in ContextOps :
         /\ ext' = [NoExt EXCEPT !.op = op, !.at = ContextStart(op)]
         /\ reply' = IF ContextStart(op) = "returned"
                     THEN [op |-> op, result |-> ContextResult(op, git, cwd_files)]
                     ELSE NoReply
    /\ ncalls' = ncalls + 1
    /\ ContextFrame

\* the operation makes its next call of git
ContextStep ==
    /\ ext.at \notin {"idle", "returned", "raised", "blocked"}
    /\ LET c == CallAt(ext.at)
           r == ToolResult(git, c)
           next == ContextAfter(ext.at, r, git)
       IN  /\ ext' = [ext EXCEPT
                        !.at = next,
                        !.last = [tool |-> c.tool, request |-> c.request,
                                  timeout |-> c.timeout, check |-> c.check,
                                  line |-> c.line, result |-> r]]
           /\ reply' = IF next = "returned"
                       THEN [op |-> ext.op, result |-> ContextResult(ext.op, git, cwd_files)]
                       ELSE reply
    /\ UNCHANGED ncalls
    /\ ContextFrame

NextContext == CallContext \/ ContextStep

SpecContext == InitContext /\ [][NextContext]_vars

\* the result a context operation is initialized with
ZeroResult(op) ==
    CASE op = "_get_git_info"        -> [git_info |-> ""]
      [] op = "_analyze_git_changes" -> [files_changed |-> <<>>]

\* C24: when the directory is not a repository, when git is missing and when
\* a call of git gets no answer, _get_git_info, _analyze_git_changes and
\* _detect_project_context do not raise: each comes back, the first two with
\* their zero-valued result.
C24_ContextNeverRaises ==
    (ext.op \in ContextOps /\ git.mode \in {"norepo", "missing", "silent"})
        => /\ ext.at \notin {"raised", "blocked"}
           /\ (ext.at = "returned" /\ ext.op # "_detect_project_context")
                  => reply.result = ZeroResult(ext.op)

----------------------------------------------------------------------------
(* One request for a commit command with flags, in and out of a repository *)

CommitCommands ==
    {"git commit", "git commit -a", "git commit --amend --no-edit --signoff"}

\* answers of the backend with a message that names a path, that counts
\* files, that is specific, and that is short
CommitOutcomes ==
    {Answer("fix: update src/completer.py"),
     Answer("chore: update 3 files in the tree"),
     Answer("feat: add retry logic to the backend client"),
     Answer("fix: handle nil"),
     Failure("refused")}

CommitEnvironments ==
    {Environment(NoCorpus, g, Store(<<>>, TRUE)) : g \in {RepoPlain, RepoFunction, NoRepo}}

InitCommit ==
    /\ Construct(CommitEnvironments)
    /\ cls = "EnhancedCompleter"

\* get_completion (lines 1151-1374) is called with a commit command
CommitRequest ==
    /\ ncalls < MaxRequests
    /\ EnhancedCall(CommitCommands, CommitOutcomes, CommitOutcomes, {TRUE})

NextCommit == CommitRequest

SpecCommit == InitCommit /\ [][NextCommit]_vars

\* the last call was for a commit command and returned a command whose
\* message the backend proposed
BackendMessage ==
    /\ call.op = "EnhancedCompleter" /\ CommitIntent(call.command)
    /\ call.source \in {"smart_commit", "ai_fallback"}
    /\ call.origin = "backend"

\* the text names a file by its path or by its extension
NamesPath(text) == Contains(text, "/") \/ ContainsAny(text, {".py", ".js", ".txt", ".md"})

\* the text gives a number of files
CountsFiles(text) ==
    \E d \in {"0", "1", "2", "3", "4", "5", "6", "7", "8", "9"} :
        Contains(text, d \o " file")

\* C25: no command returned by get_completion for a commit command carries
\* a message proposed by the backend whose subject contains a file path or a
\* number of files: such a message is rejected by the smart commit and by
\* the fallback.
C25_NoPathsOrCounts ==
    BackendMessage => ~NamesPath(call.result) /\ ~CountsFiles(call.result)

\* C26: the command returned for a commit command c without a message
\* argument, when a message m is accepted, is c with all its arguments and
\* flags, followed by -m "m".
C26_CommandAssembly ==
    (/\ call.op = "EnhancedCompleter" /\ CommitIntent(call.command)
     /\ call.source \in {"smart_commit", "ai_fallback"})
        => /\ StartsWith(call.result, Strip(call.command) \o " -m \"")
           /\ EndsWith(call.result, "\"")

----------------------------------------------------------------------------
(* The model of the requests of one call *)

\* the name of the fine-tuned model, with a tag or without
FineTuned(name) == name = "zsh-assistant" \/ StartsWith(name, "zsh-assistant:")

\* the fine-tuned models in the list of the backend
ListedFineTuned ==
    {GetAvailableModels(tags)[i] : i \in {j \in 1..Len(GetAvailableModels(tags)) :
                                             FineTuned(GetAvailableModels(tags)[j])}}

\* C27: when the list of models of the backend contains the fine-tuned
\* model, with a tag or without, every request of the call is made with it,
\* whatever model is configured; when the list lacks it or cannot be fetched,
\* every request is made with the configured model.
C27_FineTunedPreference ==
    \A k \in 1..Len(call.posts) :
        IF ListedFineTuned # {}
        THEN call.posts[k].model \in ListedFineTuned
        ELSE call.posts[k].model = model

\* the last call returned what the backend answered to it
SourcedFromBackend ==
    /\ call.op = "EnhancedCompleter"
    /\ call.source \in {"ai", "smart_commit", "ai_fallback"}
    /\ call.origin = "backend"

\* C28: a line of the backend that is not longer than the input is never
\* accepted: every result of get_completion that comes from the backend, on
\* the general path and on the commit paths, is strictly longer than the
\* input.
C28_StrictlyLonger ==
    SourcedFromBackend => Len(call.result) > Len(call.command)

----------------------------------------------------------------------------
(* One process that sets a cache key while others get it and clean it up *)

Getters == {"G1", "G2"}

\* what the cache file holds: an entry, or nothing that parses (whole is
\* FALSE) after open(cache_path, 'w') has cut it
FileEntry(value, expiry) == [value |-> value, expiry |-> expiry, whole |-> TRUE]

CutFile == [value |-> "", expiry |-> 0, whole |-> FALSE]

\* the cache file when the processes begin: none, an entry that has expired,
\* or one that has not
FilesAtStart ==
    {[exists |-> FALSE, file |-> CutFile],
     [exists |-> TRUE, file |-> FileEntry("old", 0 - 1)],
     [exists |-> TRUE, file |-> FileEntry("old", 10)]}

\* setter is where the writer is in CacheManager.set, linked whether the
\* file it has opened is still the one at the path, pc where each getter is
\* in CacheManager.get, got what its get returned
ExpiryRace(f) ==
    [file |-> f.file, exists |-> f.exists,
     setter |-> "start", value |-> "", linked |-> FALSE,
     pc |-> [g \in Getters |-> "start"], got |-> [g \in Getters |-> "none"]]

InitExpiry ==
    /\ Construct({Environment(NoCorpus, NoGit, Store(<<>>, TRUE))
                      @@ ("race" :> ExpiryRace(f)) : f \in FilesAtStart})
    /\ cls = "ModelCompleter"

\* cache.py 49-50: open(cache_path, 'w') creates the file or cuts it
SetterOpen ==
    /\ race.setter = "start"
    /\ \E value \in RaceValues :
         race' = [race EXCEPT !.setter = "opened", !.value = value, !.linked = TRUE,
                              !.file = CutFile, !.exists = TRUE]
    /\ RaceFrame

\* cache.py 43-52: the entry, with the expiry time.time() + ttl, is written
\* to the file that was opened, which is the one at the path unless that one
\* was removed in between
SetterClose ==
    /\ race.setter = "opened"
    /\ race' = [race EXCEPT !.setter = "closed",
                            !.file = IF race.linked THEN FileEntry(race.value, now + CacheTTL)
                                     ELSE @]
    /\ RaceFrame

\* cache.py 23-24: os.path.exists
GetterExists ==
    /\ \E g \in Getters :
         /\ race.pc[g] = "start"
         /\ race' = IF race.exists THEN [race EXCEPT !.pc[g] = "checked"]
                    ELSE [race EXCEPT !.pc[g] = "done", !.got[g] = "miss"]
    /\ RaceFrame

\* cache.py 26-31 and 35-37: the file is opened and parsed; a file that is
\* gone (IOError) or does not parse (JSONDecodeError) is a miss; an entry
\* that has not expired gives its value
GetterLoad ==
    /\ \E g \in Getters :
         /\ race.pc[g] = "checked"
         /\ race' = IF ~race.exists \/ ~race.file.whole
                    THEN [race EXCEPT !.pc[g] = "done", !.got[g] = "miss"]
                    ELSE IF race.file.expiry < now
                    THEN [race EXCEPT !.pc[g] = "expired"]
                    ELSE [race EXCEPT !.pc[g] = "done", !.got[g] = race.file.value]
    /\ RaceFrame

\* cache.py 32-33: os.remove of the path, whatever the file there holds by
\* now; FileNotFoundError is an IOError (line 36)
GetterRemove ==
    /\ \E g \in Getters :
         /\ race.pc[g] = "expired"
         /\ race' = [race EXCEPT !.pc[g] = "done", !.got[g] = "miss",
                                 !.exists = FALSE, !.linked = FALSE]
    /\ RaceFrame

NextExpiry == SetterOpen \/ SetterClose \/ GetterExists \/ GetterLoad \/ GetterRemove

SpecExpiry == InitExpiry /\ [][NextExpiry]_vars

\* C29: CacheManager.get removes a cache file only if the entry stored in
\* it at the moment of removal is expired; when one process cleans up an
\* expired entry while another sets a fresh value for the key, the fresh
\* value is still present afterwards.
C29_CleanupKeepsLive ==
    /\ [][(race.exists /\ ~race'.exists) => (race.file.whole /\ race.file.expiry < now)]_vars
    /\ [](race.setter = "closed"
            => race.exists /\ race.file = FileEntry(race.value, now + CacheTTL))

----------------------------------------------------------------------------
(* ModelCompleter.get_suggestions over answers that repeat one another *)

MaxSuggestions == 2

SuggestCommands == {"git ", "ls"}

\* what the backend answers to a request for suggestions
SuggestAnswers ==
    {"git status", "status", "git status\ngit stash # keep the changes", "ls -la",
     "1. ls -la\nNote: lists all files", ""}

\* completer.py 190-191: the beginnings of the lines that are skipped (the
\* bullet that is not ASCII is in none of the answers)
SkippedPrefixes ==
    {"1.", "2.", "3.", "4.", "5.", "- ", "* ",
     "To complete", "This will", "You can", "Enter", "Run:", "Note:", Fence,
     "Environment:", "User:", "Host:", "Directory:", "Recent:", "Replace",
     "This will launch", "You can now", "This will display"}

\* completer.py 187-206: the suggestion a line of the answer gives, "" when
\* the line is skipped
SuggestionOfLine(raw, command) ==
    LET line == Strip(raw)
        prefixed == IF StartsWith(line, command) THEN line ELSE command \o line
        uncommented == IF Contains(prefixed, "#") THEN Strip(Split(prefixed, "#")[1])
                       ELSE prefixed
        cut == IF Contains(uncommented, "//") THEN Strip(Split(uncommented, "//")[1])
               ELSE uncommented
    IN  IF /\ line # ""
           /\ ~StartsWithAny(line, SkippedPrefixes)
           /\ Len(line) > Len(command)
           /\ ~EndsWith(line, ":")
        THEN cut
        ELSE ""

\* completer.py 186-211: the loop over the lines, left as soon as there are
\* limit suggestions
RECURSIVE ParseSuggestions(_, _, _, _)
ParseSuggestions(lines, command, limit, suggestions) ==
    IF lines = <<>> THEN suggestions
    ELSE LET suggestion == SuggestionOfLine(Head(lines), command)
             accepted == suggestion # ""
             added == IF /\ accepted
                         /\ \A i \in 1..Len(suggestions) : suggestions[i] # suggestion
                      THEN Append(suggestions, suggestion)
                      ELSE suggestions
         IN  IF accepted /\ Len(added) >= limit THEN added
             ELSE ParseSuggestions(Tail(lines), command, limit, added)

\* completer.py 215-225: one more request for each suggestion that is
\* missing; an answer that is not yet in the list is given the command as
\* its beginning when it lacks it, and appended
RECURSIVE FollowUps(_, _, _)
FollowUps(alts, command, suggestions) ==
    IF alts = <<>> THEN suggestions
    ELSE LET alt_suggestion == Strip(Head(alts))
             added ==
                 IF /\ alt_suggestion # ""
                    /\ \A i \in 1..Len(suggestions) : suggestions[i] # alt_suggestion
                 THEN Append(suggestions,
                             IF StartsWith(alt_suggestion, command) THEN alt_suggestion
                             ELSE command \o alt_suggestion)
                 ELSE suggestions
         IN  FollowUps(Tail(alts), command, added)

\* completer.py 171-227: get_suggestions, completion the first answer and
\* alts the answers to the requests that follow it
GetSuggestions(command, max_suggestions, completion, alts) ==
    LET first == ParseSuggestions(Split(Strip(completion), "\n"), command,
                                  max_suggestions, <<>>)
        missing == IF Len(first) < max_suggestions THEN max_suggestions - Len(first) ELSE 0
    IN  [suggestions |-> FirstN(FollowUps(FirstN(alts, missing), command, first),
                                max_suggestions),
         answers |-> <<completion>> \o FirstN(alts, missing)]

InitSuggest == Construct({Environment(NoCorpus, NoRepo, Store(<<>>, TRUE))})

SuggestFrame ==
    UNCHANGED <<cls, model, command_history, history_file, history_writable, cache,
                timeout, now, corpus, git, tags, cwd_files, call, seed, race, ext, run>>

\* one call of get_suggestions
Suggest ==
    /\ ncalls < MaxRequests
    /\ \E command \in SuggestCommands, max_suggestions \in 1..MaxSuggestions,
          completion \in SuggestAnswers, alts \in [1..MaxSuggestions -> SuggestAnswers] :
         LET r == GetSuggestions(command, max_suggestions, completion, alts)
         IN  /\ history' = UpdateHistory(history, command)
             /\ reply' = [op |-> "get_suggestions", command |-> command,
                          max_suggestions |-> max_suggestions,
                          answers |-> r.answers, result |-> r.suggestions]
    /\ ncalls' = ncalls + 1
    /\ SuggestFrame

NextSuggest == Suggest

SpecSuggest == InitSuggest /\ [][NextSuggest]_vars

\* C30: for every command and every max_suggestions of at least 1, whatever
\* the backend answers to the first request and to those that follow,
\* get_suggestions returns at most max_suggestions strings, no two of them
\* equal.
C30_SuggestionListShape ==
    reply.op = "get_suggestions"
        => /\ Len(reply.result) <= reply.max_suggestions
           /\ \A i, j \in 1..Len(reply.result) :
                  i # j => reply.result[i] # reply.result[j]

====
